---- MODULE Spec2Model ----
(***************************************************************************)
(* Model of the auto-fix engine of cpp-code-review                         *)
(* (src/src/fixer/auto_fixer.cpp, first translation unit, lines 1-787):    *)
(* applyFix, rollback, the fix generators and fixAll, over the findings    *)
(* of the reporter (src/src/report/reporter.h).                            *)
(*                                                                         *)
(* A file is a sequence of bytes; a byte is a one-character string.  The   *)
(* file system maps a path to [ex, data].  Paths are byte sequences too,   *)
(* so that "<path>.backup" and the 7-byte strip of rollback() are the      *)
(* string operations the code performs.                                    *)
(*                                                                         *)
(* The module also models the rule engine (src/src/rules/rule_engine.cpp:  *)
(* registerRule, runAllRules), the counters of the reporter, the taint     *)
(* analysis (src/src/analysis/taint_analysis.cpp: the name tables, the     *)
(* walk of propagateTaint with its static depth counter, reportTaintFlow)  *)
(* and the memory-leak rule (src/src/rules/memory_leak_rule.cpp).  SpecEngine *)
(* and SpecAnalysis are their state machines.                              *)
(***************************************************************************)
EXTENDS Integers, Sequences, FiniteSets, TLC

VARIABLES fs, create_backup_, interactive_mode_, backup_files_, issues_, last, nfix,
          rules_, depth

vars == <<fs, create_backup_, interactive_mode_, backup_files_, issues_, last, nfix,
          rules_, depth>>

(***************************************************************************)
(* Bounds of the model.                                                    *)
(***************************************************************************)
\* longest initial content of the first file, in bytes
MaxLen == 2
\* line numbers offered to an action are 0..MaxLine
MaxLine == 2
\* column numbers offered to a Replace action are 0..MaxCol
MaxCol == 2
\* longest initial content of the first file in a session, in bytes
MaxSessionLen == 1
\* applyFix calls made directly in one behaviour
MaxFixes == 2
\* findings held by the reporter that fixAll reads
MaxIssues == 2
\* fixAll calls in one behaviour
MaxBatches == 1
\* rules registered with the engine
MaxRules == 2
\* findings one check of a rule adds
MaxEmits == 2
\* runAllRules calls in one behaviour
MaxRuns == 2
\* checks of the analyses in one behaviour
MaxChecks == 2
\* a check may have its k-th addIssue call throw, k up to MaxThrowAt
MaxThrowAt == 1
\* nodes of a unit given to the memory-leak rule
MaxNodes == 3
\* parts a function name given to the name tables is made of
MaxParts == 3
\* declarations and subscripts of a unit given to the buffer-overflow rule
MaxAccessNodes == 2

(***************************************************************************)
(* Bytes, strings, paths.                                                  *)
(***************************************************************************)
LF == "\n"
TAB == "\t"
CR == "\r"
SP == " "

Alphabet == {"x", "#", "/", SP, LF}

RECURSIVE StringsUpTo(_)
StringsUpTo(n) ==
    IF n = 0 THEN {<< >>}
    ELSE LET shorter == StringsUpTo(n - 1)
         IN shorter \cup {Append(s, c) : s \in {t \in shorter : Len(t) = n - 1}, c \in Alphabet}

BACKUP_SUFFIX == <<".", "b", "a", "c", "k", "u", "p">>

PathF == <<"f">>
PathG == <<"g">>
Paths == {PathF, PathG}

BackupPathOf(file_path) == file_path \o BACKUP_SUFFIX

AllPaths == Paths \cup {BackupPathOf(p) : p \in Paths}

Absent == [ex |-> FALSE, data |-> << >>]
File(c) == [ex |-> TRUE, data |-> c]

Exists(fsys, p) == p \in DOMAIN fsys /\ fsys[p].ex

NPOS == -1

\* std::string::find: 0-based position of the first occurrence, NPOS if none
StrFind(hay, needle) ==
    LET hits == {i \in 0..(Len(hay) - Len(needle)) :
                    SubSeq(hay, i + 1, i + Len(needle)) = needle}
    IN IF hits = {} THEN NPOS ELSE CHOOSE i \in hits : \A j \in hits : i <= j

\* std::string::find_first_not_of
FindFirstNotOf(s, set) ==
    LET hits == {i \in 0..(Len(s) - 1) : s[i + 1] \notin set}
    IN IF hits = {} THEN NPOS ELSE CHOOSE i \in hits : \A j \in hits : i <= j

\* std::string::find_last_not_of
FindLastNotOf(s, set) ==
    LET hits == {i \in 0..(Len(s) - 1) : s[i + 1] \notin set}
    IN IF hits = {} THEN NPOS ELSE CHOOSE i \in hits : \A j \in hits : i >= j

\* std::string::replace(pos, len, text), for pos + len <= size
StrReplace(line, pos, len, text) ==
    SubSeq(line, 1, pos) \o text \o SubSeq(line, pos + len + 1, Len(line))

\* vector::insert(begin() + pos, e)
InsertAt(s, pos, e) == SubSeq(s, 1, pos) \o <<e>> \o SubSeq(s, pos + 1, Len(s))

\* vector::erase(begin() + from, begin() + to)
EraseRange(s, from, to) == SubSeq(s, 1, from) \o SubSeq(s, to + 1, Len(s))

(***************************************************************************)
(* readLines / the std::getline loop: split at LF; a final piece without   *)
(* LF is a line, an empty final piece is not.                              *)
(***************************************************************************)
RECURSIVE GetLines(_, _)
GetLines(c, cur) ==
    LET ends == {i \in 1..Len(c) : c[i] = LF}
    IN IF ends = {} THEN (IF cur \o c = << >> THEN << >> ELSE <<cur \o c>>)
       ELSE LET e == CHOOSE i \in ends : \A j \in ends : i <= j
            IN <<cur \o SubSeq(c, 1, e - 1)>> \o GetLines(SubSeq(c, e + 1, Len(c)), << >>)

readLines(fsys, file_path) ==
    IF Exists(fsys, file_path) THEN GetLines(fsys[file_path].data, << >>) ELSE << >>

(***************************************************************************)
(* The serialisation loop of applyFix: every line is followed by LF.       *)
(***************************************************************************)
RECURSIVE Serialize(_)
Serialize(lines) ==
    IF lines = << >> THEN << >>
    ELSE Head(lines) \o <<LF>> \o Serialize(Tail(lines))

(***************************************************************************)
(* FixAction (auto_fixer.h): old_code and description are never read by    *)
(* applyFix and are left out.                                              *)
(***************************************************************************)
FixTypes == {"REPLACE", "INSERT", "DELETE", "ADD_INCLUDE", "REWRITE"}

Fix(t, p, ls, le, cs, ce, code) ==
    [type |-> t, file_path |-> p, line_start |-> ls, line_end |-> le,
     column_start |-> cs, column_end |-> ce, new_code |-> code]

(***************************************************************************)
(* The switch of applyFix: the edit of the line vector, by kind.           *)
(* Result: [ok, lines]; ok = FALSE is the early "return false".            *)
(***************************************************************************)
\* mutant of EditReplace: a column_end before column_start replaces nothing
\* instead of being refused
EditReplaceNoEndCheck(lines, fix) ==
    IF fix.line_start = 0 \/ fix.line_start > Len(lines)
    THEN [ok |-> FALSE, lines |-> lines]
    ELSE LET line == lines[fix.line_start]
         IN IF fix.column_start > 0 /\ fix.column_end > 0
            THEN IF fix.column_start > Len(line) + 1
                 THEN [ok |-> FALSE, lines |-> lines]
                 ELSE LET start_pos == fix.column_start - 1
                          length0 == IF fix.column_end < fix.column_start THEN 0
                                     ELSE fix.column_end - fix.column_start
                          length == IF start_pos + length0 > Len(line)
                                    THEN Len(line) - start_pos
                                    ELSE length0
                      IN [ok |-> TRUE,
                          lines |-> [lines EXCEPT ![fix.line_start] =
                                        StrReplace(line, start_pos, length, fix.new_code)]]
            ELSE [ok |-> TRUE, lines |-> [lines EXCEPT ![fix.line_start] = fix.new_code]]

EditReplace(lines, fix) ==
    IF fix.line_start = 0 \/ fix.line_start > Len(lines)
    THEN [ok |-> FALSE, lines |-> lines]
    ELSE LET line == lines[fix.line_start]
         IN IF fix.column_start > 0 /\ fix.column_end > 0
            THEN IF fix.column_start > Len(line) + 1
                 THEN [ok |-> FALSE, lines |-> lines]
                 ELSE IF fix.column_end < fix.column_start
                 THEN [ok |-> FALSE, lines |-> lines]
                 ELSE LET start_pos == fix.column_start - 1
                          length0 == fix.column_end - fix.column_start
                          length == IF start_pos + length0 > Len(line)
                                    THEN Len(line) - start_pos
                                    ELSE length0
                      IN [ok |-> TRUE,
                          lines |-> [lines EXCEPT ![fix.line_start] =
                                        StrReplace(line, start_pos, length, fix.new_code)]]
            ELSE [ok |-> TRUE, lines |-> [lines EXCEPT ![fix.line_start] = fix.new_code]]

\* mutant of EditInsert: insertion after the last line is refused
EditInsertNoAppend(lines, fix) ==
    IF fix.line_start = 0 \/ fix.line_start > Len(lines)
    THEN [ok |-> FALSE, lines |-> lines]
    ELSE [ok |-> TRUE, lines |-> InsertAt(lines, fix.line_start - 1, fix.new_code)]

EditInsert(lines, fix) ==
    IF fix.line_start = 0 \/ fix.line_start > Len(lines) + 1
    THEN [ok |-> FALSE, lines |-> lines]
    ELSE [ok |-> TRUE, lines |-> InsertAt(lines, fix.line_start - 1, fix.new_code)]

\* mutant of EditDelete: the check line_end >= line_start is missing
EditDeleteNoOrderCheck(lines, fix) ==
    IF fix.line_start = 0 \/ fix.line_end = 0 \/
       fix.line_start > Len(lines) \/ fix.line_end > Len(lines)
    THEN [ok |-> FALSE, lines |-> lines]
    ELSE [ok |-> TRUE, lines |-> EraseRange(lines, fix.line_start - 1, fix.line_end)]

EditDelete(lines, fix) ==
    IF fix.line_start = 0 \/ fix.line_end = 0 \/
       fix.line_start > Len(lines) \/ fix.line_end > Len(lines)
    THEN [ok |-> FALSE, lines |-> lines]
    ELSE IF fix.line_end < fix.line_start
    THEN [ok |-> FALSE, lines |-> lines]
    ELSE [ok |-> TRUE, lines |-> EraseRange(lines, fix.line_start - 1, fix.line_end)]

\* the "has_include" loop
HasInclude(lines, code) ==
    \E i \in 1..Len(lines) : StrFind(lines[i], code) # NPOS

\* a line the insert-position loop stops at
IsInsertStop(line) ==
    LET first_non_space == FindFirstNotOf(line, {SP, TAB})
    IN /\ first_non_space # NPOS
       /\ line[first_non_space + 1] \notin {"/", "*", "#"}

\* mutant of InsertPos: the include always goes to the top of the file
InsertPosAtTop(lines) == 0

\* the insert-position loop: the first stopping line, 0 when there is none
InsertPos(lines) ==
    LET stops == {i \in 0..(Len(lines) - 1) : IsInsertStop(lines[i + 1])}
    IN IF stops = {} THEN 0 ELSE CHOOSE i \in stops : \A j \in stops : i <= j

EditAddInclude(lines, fix) ==
    IF HasInclude(lines, fix.new_code)
    THEN [ok |-> TRUE, lines |-> lines]
    ELSE [ok |-> TRUE, lines |-> InsertAt(lines, InsertPos(lines), fix.new_code)]

EditRewrite(lines, fix) ==
    [ok |-> TRUE, lines |-> GetLines(fix.new_code, << >>)]

ApplyEdit(lines, fix) ==
    CASE fix.type = "REPLACE" -> EditReplace(lines, fix)
      [] fix.type = "INSERT" -> EditInsert(lines, fix)
      [] fix.type = "DELETE" -> EditDelete(lines, fix)
      [] fix.type = "ADD_INCLUDE" -> EditAddInclude(lines, fix)
      [] fix.type = "REWRITE" -> EditRewrite(lines, fix)

(***************************************************************************)
(* File-system calls.  Each takes the outcome the environment gives it.    *)
(***************************************************************************)
\* mutant of createBackup: an existing backup is kept, not replaced
createBackupKeepsStale(fsys, bf, file_path, copy_ok) ==
    LET backup_path == BackupPathOf(file_path)
    IN IF copy_ok
       THEN [ok |-> TRUE,
             fs |-> IF Exists(fsys, backup_path) THEN fsys
                    ELSE [fsys EXCEPT ![backup_path] = fsys[file_path]],
             bf |-> Append(bf, backup_path)]
       ELSE [ok |-> FALSE, fs |-> fsys, bf |-> bf]

\* mutant of createBackup: a file that has a backup on record keeps it
createBackupFirstOnly(fsys, bf, file_path, copy_ok) ==
    LET backup_path == BackupPathOf(file_path)
    IN IF \E i \in DOMAIN bf : bf[i] = backup_path
       THEN [ok |-> TRUE, fs |-> fsys, bf |-> bf]
       ELSE IF copy_ok
       THEN [ok |-> TRUE,
             fs |-> [fsys EXCEPT ![backup_path] = fsys[file_path]],
             bf |-> Append(bf, backup_path)]
       ELSE [ok |-> FALSE,
             fs |-> [fsys EXCEPT ![backup_path] = Absent],
             bf |-> bf]

\* createBackup: remove a stale backup, copy, record.  copy_ok = FALSE is
\* copy_file throwing, caught: the stale backup is gone, nothing is recorded.
createBackup(fsys, bf, file_path, copy_ok) ==
    LET backup_path == BackupPathOf(file_path)
    IN IF copy_ok
       THEN [ok |-> TRUE,
             fs |-> [fsys EXCEPT ![backup_path] = fsys[file_path]],
             bf |-> Append(bf, backup_path)]
       ELSE [ok |-> FALSE,
             fs |-> [fsys EXCEPT ![backup_path] = Absent],
             bf |-> bf]

WriteOutcomes == {"ok", "not_opened", "truncated", "short"}

\* writeFile: "not_opened" leaves the file as it was; "truncated" and "short"
\* are a stream that fails after the open has emptied the file.
writeFile(fsys, file_path, content, outcome) ==
    CASE outcome = "ok" ->
            [ok |-> TRUE, fs |-> [fsys EXCEPT ![file_path] = File(content)]]
      [] outcome = "not_opened" ->
            [ok |-> FALSE, fs |-> fsys]
      [] outcome = "truncated" ->
            [ok |-> FALSE, fs |-> [fsys EXCEPT ![file_path] = File(<< >>)]]
      [] outcome = "short" ->
            [ok |-> FALSE,
             fs |-> [fsys EXCEPT ![file_path] =
                        File(SubSeq(content, 1, Len(content) - 1))]]

\* mutant of RestoreAfterFailedWrite: the branch is missing
RestoreNeverTried(fsys, cb, file_path, restore_ok) ==
    [tried |-> FALSE, fs |-> fsys]

\* the restore branch after a failed write
RestoreAfterFailedWrite(fsys, cb, file_path, restore_ok) ==
    LET backup_path == BackupPathOf(file_path)
    IN IF cb /\ Exists(fsys, backup_path)
       THEN [tried |-> TRUE,
             fs |-> IF restore_ok
                    THEN [fsys EXCEPT ![file_path] = fsys[backup_path]]
                    ELSE fsys]
       ELSE [tried |-> FALSE, fs |-> fsys]

(***************************************************************************)
(* askUserConfirmation: trim, then compare with the accepted answers.      *)
(***************************************************************************)
Blank == {SP, TAB, LF, CR}

Trim(response) ==
    LET a == FindFirstNotOf(response, Blank)
        r1 == IF a = NPOS THEN << >> ELSE SubSeq(response, a + 1, Len(response))
        b == FindLastNotOf(r1, Blank)
    IN SubSeq(r1, 1, b + 1)

Accepted == {<<"y">>, <<"Y">>, <<"y", "e", "s">>, <<"Y", "e", "s">>, <<"Y", "E", "S">>}

\* mutant of askUserConfirmation: an empty answer counts as yes
askUserConfirmationDefaultYes(response) ==
    Trim(response) \in Accepted \cup {<< >>}

askUserConfirmation(response) == Trim(response) \in Accepted

(***************************************************************************)
(* applyFix.  io = [response, copy_ok, read_ok, write, restore_ok] is what *)
(* the user and the file system answer during the call.  The result        *)
(* carries, beside the new state and the return value, the stage the call  *)
(* ended in and the file system as it was when the write began.            *)
(***************************************************************************)
FixResultOf(fsys, bf, ret, stage, mid, midbf, tried) ==
    [fs |-> fsys, bf |-> bf, ret |-> ret, stage |-> stage,
     mid |-> mid, midbf |-> midbf, restore_tried |-> tried]

applyFix(fsys, bf, cb, im, fix, io) ==
    IF im /\ ~askUserConfirmation(io.response)
    THEN FixResultOf(fsys, bf, FALSE, "declined", fsys, bf, FALSE)
    ELSE IF ~Exists(fsys, fix.file_path)
    THEN FixResultOf(fsys, bf, FALSE, "missing", fsys, bf, FALSE)
    ELSE
    LET bk == IF cb
              THEN createBackup(fsys, bf, fix.file_path, io.copy_ok /\ io.read_ok)
              ELSE [ok |-> TRUE, fs |-> fsys, bf |-> bf]
    IN IF ~bk.ok
       THEN FixResultOf(bk.fs, bk.bf, FALSE, "backup_failed", bk.fs, bk.bf, FALSE)
       ELSE IF ~io.read_ok
       THEN FixResultOf(bk.fs, bk.bf, FALSE, "unreadable", bk.fs, bk.bf, FALSE)
       ELSE
       LET lines == readLines(bk.fs, fix.file_path)
           ed == ApplyEdit(lines, fix)
       IN IF ~ed.ok
          THEN FixResultOf(bk.fs, bk.bf, FALSE, "invalid", bk.fs, bk.bf, FALSE)
          ELSE
          LET w == writeFile(bk.fs, fix.file_path, Serialize(ed.lines), io.write)
          IN IF w.ok
             THEN FixResultOf(w.fs, bk.bf, TRUE, "written", bk.fs, bk.bf, FALSE)
             ELSE
             LET r == RestoreAfterFailedWrite(w.fs, cb, fix.file_path, io.restore_ok)
             IN FixResultOf(r.fs, bk.bf, FALSE, "write_failed", bk.fs, bk.bf, r.tried)

(***************************************************************************)
(* rollback.  throwing = the backups whose copy_file throws.               *)
(***************************************************************************)
\* mutant of OriginalPathOf: the suffix is taken to be 6 bytes long
OriginalPathOfShort(backup_path) == SubSeq(backup_path, 1, Len(backup_path) - 6)

OriginalPathOf(backup_path) == SubSeq(backup_path, 1, Len(backup_path) - 7)

\* mutant of RollbackLoop: the loop ends at the first missing backup
RECURSIVE RollbackLoopStops(_, _, _, _)
RollbackLoopStops(fsys, bf, throwing, success) ==
    IF bf = << >> THEN [fs |-> fsys, ret |-> success]
    ELSE LET backup_path == Head(bf)
         IN IF ~Exists(fsys, backup_path)
            THEN [fs |-> fsys, ret |-> FALSE]
            ELSE IF backup_path \in throwing
            THEN RollbackLoopStops(fsys, Tail(bf), throwing, FALSE)
            ELSE RollbackLoopStops([fsys EXCEPT ![SubSeq(backup_path, 1, Len(backup_path) - 7)]
                                                    = fsys[backup_path],
                                                ![backup_path] = Absent],
                                   Tail(bf), throwing, success)

RECURSIVE RollbackLoop(_, _, _, _)
RollbackLoop(fsys, bf, throwing, success) ==
    IF bf = << >> THEN [fs |-> fsys, ret |-> success]
    ELSE LET backup_path == Head(bf)
         IN IF ~Exists(fsys, backup_path)
            THEN RollbackLoop(fsys, Tail(bf), throwing, FALSE)
            ELSE IF backup_path \in throwing
            THEN RollbackLoop(fsys, Tail(bf), throwing, FALSE)
            ELSE RollbackLoop([fsys EXCEPT ![OriginalPathOf(backup_path)] = fsys[backup_path],
                                           ![backup_path] = Absent],
                              Tail(bf), throwing, success)

rollback(fsys, bf, throwing) ==
    IF bf = << >> THEN [fs |-> fsys, ret |-> TRUE]
    ELSE RollbackLoop(fsys, bf, throwing, TRUE)

(***************************************************************************)
(* Findings of the reporter (reporter.h) and the fix generators.           *)
(* Text outside ASCII is carried byte by byte; such a byte is written as   *)
(* its two hexadecimal digits.                                             *)
(***************************************************************************)
CRITICAL == 0
HIGH == 1
MEDIUM == 2
LOW == 3
SUGGESTION == 4

Severities == CRITICAL..SUGGESTION

Issue(p, line, sev, rule, desc) ==
    [file_path |-> p, line |-> line, severity |-> sev, rule_id |-> rule,
     description |-> desc]

\* mutant of addIssue: the finding is put in front
addIssueInFront(issues, issue) == <<issue>> \o issues

\* Reporter::addIssue
addIssue(issues, issue) == Append(issues, issue)

Str_int == <<"i", "n", "t">>
Str_long == <<"l", "o", "n", "g">>
Str_short == <<"s", "h", "o", "r", "t">>
Str_double == <<"d", "o", "u", "b", "l", "e">>
Str_float == <<"f", "l", "o", "a", "t">>
Str_star == <<"*">>
Str_bool == <<"b", "o", "o", "l">>
Str_if == <<"i", "f">>
Str_while == <<"w", "h", "i", "l", "e">>
Str_strcpy == <<"s", "t", "r", "c", "p", "y">>
Str_strncpy == <<"s", "t", "r", "n", "c", "p", "y">>
Str_sprintf == <<"s", "p", "r", "i", "n", "t", "f">>
Str_snprintf == <<"s", "n", "p", "r", "i", "n", "t", "f">>
Str_strcat == <<"s", "t", "r", "c", "a", "t">>
Str_strncat == <<"s", "t", "r", "n", "c", "a", "t">>
Str_gets == <<"g", "e", "t", "s">>
Str_ptr == <<"p", "t", "r">>
Str_include_memory == <<"#", "i", "n", "c", "l", "u", "d", "e", " ", "<", "m", "e", "m",
          "o", "r", "y", ">">>

QUOTE == "'"

\* `.` of the regular expressions matches any byte but a line terminator
LineTerminators == {LF, CR}

\* \s of the regular expressions: space, \t, \n, \v (0B), \f, \r
RegexSpace == {SP, TAB, LF, "0B", "\f", CR}

\* \w of the regular expressions
WordChars ==
    {"a", "b", "c", "d", "e", "f", "g", "h", "i", "j", "k", "l", "m", "n",
      "o", "p", "q", "r", "s", "t", "u", "v", "w", "x", "y", "z", "A", "B",
      "C", "D", "E", "F", "G", "H", "I", "J", "K", "L", "M", "N", "O", "P",
      "Q", "R", "S", "T", "U", "V", "W", "X", "Y", "Z", "0", "1", "2", "3",
      "4", "5", "6", "7", "8", "9", "_"}

MinOf(S) == CHOOSE i \in S : \A j \in S : i <= j
MaxOf(S) == CHOOSE i \in S : \A j \in S : i >= j

\* '([^']+)' matched at k: the index of the closing quote, 0 if no match
QuotedEnd(s, k) ==
    IF k > Len(s) \/ s[k] # QUOTE THEN 0
    ELSE LET later == {l \in (k + 1)..Len(s) : s[l] = QUOTE}
         IN IF later = {} THEN 0
            ELSE IF MinOf(later) > k + 1 THEN MinOf(later) ELSE 0

QuotedStarts(s) == {k \in 1..Len(s) : QuotedEnd(s, k) # 0}

Quoted(s, k) == SubSeq(s, k + 1, QuotedEnd(s, k) - 1)

\* regex_search with '([^']+)': the leftmost quoted run
SearchVar(desc) ==
    IF QuotedStarts(desc) = {} THEN [found |-> FALSE, var |-> << >>]
    ELSE [found |-> TRUE, var |-> Quoted(desc, MinOf(QuotedStarts(desc)))]

\* second runs that '([^']+)'.*'([^']+)' can pair with the run opening at k
SecondStarts(desc, k) ==
    {k2 \in QuotedStarts(desc) :
        /\ k2 > QuotedEnd(desc, k)
        /\ \A i \in (QuotedEnd(desc, k) + 1)..(k2 - 1) : desc[i] \notin LineTerminators}

\* regex_search with '([^']+)'.*'([^']+)': leftmost first run, and `.*`
\* being greedy, the last run that can follow it
SearchVarType(desc) ==
    LET firsts == {k \in QuotedStarts(desc) : SecondStarts(desc, k) # {}}
    IN IF firsts = {} THEN [found |-> FALSE, var |-> << >>, type |-> << >>]
       ELSE LET k1 == MinOf(firsts)
                k2 == MaxOf(SecondStarts(desc, k1))
            IN [found |-> TRUE, var |-> Quoted(desc, k1), type |-> Quoted(desc, k2)]

Some(fix) == [some |-> TRUE, fix |-> fix]
None == [some |-> FALSE, fix |-> Fix("REPLACE", << >>, 0, 0, 0, 0, << >>)]

NullCheckCode(var_name) ==
    <<" ", " ", " ", " ", "i", "f", " ", "(">> \o var_name
    \o <<" ", "!", "=", " ", "n", "u", "l", "l", "p", "t", "r", ")", " ",
          "{", "\n", " ", " ", " ", " ", " ", " ", " ", " ", "/", "/", " ",
          "E5", "8E", "9F", "E5", "A7", "8B", "E4", "BB", "A3", "E7", "A0",
          "81", " ", "(", "o", "r", "i", "g", "i", "n", "a", "l", " ", "c",
          "o", "d", "e", ")", "\n", " ", " ", " ", " ", "}", " ", "e", "l",
          "s", "e", " ", "{", "\n", " ", " ", " ", " ", " ", " ", " ", " ",
          "/", "/", " ", "E5", "A4", "84", "E7", "90", "86", "E7", "A9",
          "BA", "E6", "8C", "87", "E9", "92", "88", "E6", "83", "85", "E5",
          "86", "B5", " ", "(", "h", "a", "n", "d", "l", "e", " ", "n",
          "u", "l", "l", " ", "p", "o", "i", "n", "t", "e", "r", " ", "c",
          "a", "s", "e", ")", "\n", " ", " ", " ", " ", "}">>

fixNullPointer(issue) ==
    LET m == SearchVar(issue.description)
        var_name == IF m.found THEN m.var ELSE Str_ptr
    IN Some(Fix("REPLACE", issue.file_path, issue.line, issue.line, 0, 0,
                NullCheckCode(var_name)))

Contains(s, needle) == StrFind(s, needle) # NPOS

InitializerFor(var_type) ==
    IF Contains(var_type, Str_int) \/ Contains(var_type, Str_long)
       \/ Contains(var_type, Str_short)
    THEN <<" ", "=", " ", "0", ";">>
    ELSE IF Contains(var_type, Str_double) \/ Contains(var_type, Str_float)
    THEN <<" ", "=", " ", "0", ".", "0", ";">>
    ELSE IF Contains(var_type, Str_star)
    THEN <<" ", "=", " ", "n", "u", "l", "l", "p", "t", "r", ";">>
    ELSE IF Contains(var_type, Str_bool)
    THEN <<" ", "=", " ", "f", "a", "l", "s", "e", ";">>
    ELSE <<"{", "}", ";">>

\* `unset` stands for the members the generator leaves without a value:
\* column_start and column_end hold whatever the FixAction was built over
fixUninitializedVar(issue, unset) ==
    LET m == SearchVarType(issue.description)
    IN IF m.found
       THEN Some(Fix("REPLACE", issue.file_path, issue.line, issue.line,
                     unset.column_start, unset.column_end,
                     <<" ", " ", " ", " ">> \o m.type \o <<SP>> \o m.var \o InitializerFor(m.type)))
       ELSE None

\* keyword\s*\(([^=]+)=([^=]) matched at s: [ok, g1, g2, end]
AssignMatchAt(line, kw, s) ==
    LET n == Len(line)
        nomatch == [ok |-> FALSE, g1 |-> << >>, g2 |-> << >>, end |-> 0]
        t == s + Len(kw)
        nonspace == {i \in t..n : line[i] \notin RegexSpace}
    IN IF s + Len(kw) - 1 > n \/ SubSeq(line, s, s + Len(kw) - 1) # kw THEN nomatch
       ELSE IF nonspace = {} THEN nomatch
       ELSE LET open == MinOf(nonspace)
                eqs == {i \in (open + 1)..n : line[i] = "="}
            IN IF line[open] # "(" \/ eqs = {} THEN nomatch
               ELSE LET e == MinOf(eqs)
                    IN IF e = open + 1 \/ e + 1 > n \/ line[e + 1] = "=" THEN nomatch
                       ELSE [ok |-> TRUE, g1 |-> SubSeq(line, open + 1, e - 1),
                             g2 |-> <<line[e + 1]>>, end |-> e + 1]

\* regex_replace(line, keyword\s*\(([^=]+)=([^=]), "keyword ($1==$2"),
\* the part of the result that comes from line[p..]
RECURSIVE AssignReplaceFrom(_, _, _)
AssignReplaceFrom(line, kw, p) ==
    LET hits == {s \in p..Len(line) : AssignMatchAt(line, kw, s).ok}
    IN IF hits = {} THEN SubSeq(line, p, Len(line))
       ELSE LET s == MinOf(hits)
                m == AssignMatchAt(line, kw, s)
            IN SubSeq(line, p, s - 1) \o kw \o <<SP, "(">> \o m.g1 \o <<"=", "=">>
               \o m.g2 \o AssignReplaceFrom(line, kw, m.end + 1)

AssignReplace(line, kw) == AssignReplaceFrom(line, kw, 1)

fixAssignmentInCondition(fsys, issue, unset) ==
    LET lines == readLines(fsys, issue.file_path)
    IN IF issue.line > 0 /\ issue.line <= Len(lines)
       THEN LET line == lines[issue.line]
                as_if == AssignReplace(line, Str_if)
                new_line == IF as_if = line THEN AssignReplace(line, Str_while)
                            ELSE as_if
            IN IF new_line # line
               THEN Some(Fix("REPLACE", issue.file_path, issue.line, issue.line,
                             unset.column_start, unset.column_end, new_line))
               ELSE None
       ELSE None

IsWordAt(s, i) == i >= 1 /\ i <= Len(s) /\ s[i] \in WordChars

\* regex_replace(line, \bword\b, repl), the part that comes from line[p..]
RECURSIVE ReplaceWordFrom(_, _, _, _)
ReplaceWordFrom(line, word, repl, p) ==
    LET n == Len(word)
        hits == {s \in p..(Len(line) - n + 1) :
                    /\ SubSeq(line, s, s + n - 1) = word
                    /\ ~IsWordAt(line, s - 1)
                    /\ ~IsWordAt(line, s + n)}
    IN IF hits = {} THEN SubSeq(line, p, Len(line))
       ELSE SubSeq(line, p, MinOf(hits) - 1) \o repl
            \o ReplaceWordFrom(line, word, repl, MinOf(hits) + n)

ReplaceWord(line, word, repl) == ReplaceWordFrom(line, word, repl, 1)

GetsAdvice ==
    <<" ", " ", " ", " ", "/", "/", " ", "B", "U", "G", ":", " ", "g",
          "e", "t", "s", "(", ")", " ", "E5", "B7", "B2", "E5", "BA", "9F",
          "E5", "BC", "83", "EF", "BC", "8C", "E8", "AF", "B7", "E4", "BD",
          "BF", "E7", "94", "A8", " ", "s", "t", "d", ":", ":", "g", "e",
          "t", "l", "i", "n", "e", " ", "E6", "88", "96", " ", "f", "g",
          "e", "t", "s", "\n", " ", " ", " ", " ", "/", "/", " ", "s", "t",
          "d", ":", ":", "s", "t", "r", "i", "n", "g", " ", "l", "i", "n",
          "e", ";", "\n", " ", " ", " ", " ", "/", "/", " ", "s", "t", "d",
          ":", ":", "g", "e", "t", "l", "i", "n", "e", "(", "s", "t", "d",
          ":", ":", "c", "i", "n", ",", " ", "l", "i", "n", "e", ")", ";">>

fixUnsafeCFunction(fsys, issue, unset) ==
    LET lines == readLines(fsys, issue.file_path)
        with(code) == Some(Fix("REPLACE", issue.file_path, issue.line, issue.line,
                               unset.column_start, unset.column_end, code))
    IN IF issue.line > 0 /\ issue.line <= Len(lines)
       THEN LET line == lines[issue.line]
            IN IF Contains(line, Str_strcpy)
               THEN with(ReplaceWord(line, Str_strcpy, Str_strncpy))
               ELSE IF Contains(line, Str_sprintf)
               THEN with(ReplaceWord(line, Str_sprintf, Str_snprintf))
               ELSE IF Contains(line, Str_strcat)
               THEN with(ReplaceWord(line, Str_strcat, Str_strncat))
               ELSE IF Contains(line, Str_gets)
               THEN with(GetsAdvice)
               ELSE None
       ELSE None

\* line_end and the columns are left without a value here as well; the
\* ADD_INCLUDE case of applyFix reads none of them
fixMemoryLeak(issue, unset) ==
    Some(Fix("ADD_INCLUDE", issue.file_path, 1, unset.line_end,
             unset.column_start, unset.column_end, Str_include_memory))

fixBufferOverflow(issue) == None

fixIntegerOverflow(issue) == None

fixUseAfterFree(issue) == None

generateFix(fsys, issue, unset) ==
    IF issue.rule_id = "NULL-PTR-001" THEN fixNullPointer(issue)
    ELSE IF issue.rule_id = "UNINIT-VAR-001" THEN fixUninitializedVar(issue, unset)
    ELSE IF issue.rule_id = "ASSIGN-COND-001"
    THEN fixAssignmentInCondition(fsys, issue, unset)
    ELSE IF issue.rule_id = "UNSAFE-C-FUNC-001" THEN fixUnsafeCFunction(fsys, issue, unset)
    ELSE IF issue.rule_id = "MEMORY-LEAK-001" THEN fixMemoryLeak(issue, unset)
    ELSE IF issue.rule_id = "BUFFER-OVERFLOW-001" THEN fixBufferOverflow(issue)
    ELSE IF issue.rule_id = "INTEGER-OVERFLOW-001" THEN fixIntegerOverflow(issue)
    ELSE IF issue.rule_id = "USE-AFTER-FREE-001" THEN fixUseAfterFree(issue)
    ELSE None

\* what the outside supplies to an applyFix call whose file-system calls succeed
NominalIO(response) ==
    [response |-> response, copy_ok |-> TRUE, read_ok |-> TRUE,
     write |-> "ok", restore_ok |-> TRUE]

(***************************************************************************)
(* fixAll.  The loop state is [fs, bf, modified_files, fixed_count,        *)
(* failed_count, log]; log has one entry per finding visited: whether it   *)
(* passed the severity filter, whether generateFix produced an action,     *)
(* whether applyFix was called, and what applyFix returned.  env[i] is     *)
(* what the outside supplies while finding i is handled: the values of     *)
(* the members its generator leaves unset, and the user's answer.          *)
(***************************************************************************)
LogEntry(issue, passed, generated, called, ret) ==
    [file_path |-> issue.file_path, passed |-> passed, generated |-> generated,
     called |-> called, ret |-> ret]

InSeq(s, e) == \E i \in DOMAIN s : s[i] = e

\* mutant of fixAllStep: the severity test is taken the other way round
fixAllStepFilterReversed(st, cb, im, issue, filter_severity, e) ==
    IF issue.severity < filter_severity
    THEN [st EXCEPT !.log = Append(@, LogEntry(issue, FALSE, FALSE, FALSE, FALSE))]
    ELSE
    LET fix_opt == generateFix(st.fs, issue, e.unset)
    IN IF ~fix_opt.some
       THEN [st EXCEPT !.log = Append(@, LogEntry(issue, TRUE, FALSE, FALSE, FALSE))]
       ELSE
       LET r == applyFix(st.fs, st.bf, cb, im, fix_opt.fix, NominalIO(e.response))
       IN IF r.ret
          THEN [st EXCEPT !.fs = r.fs, !.bf = r.bf,
                          !.fixed_count = @ + 1,
                          !.modified_files =
                              IF InSeq(@, fix_opt.fix.file_path) THEN @
                              ELSE Append(@, fix_opt.fix.file_path),
                          !.log = Append(@, LogEntry(issue, TRUE, TRUE, TRUE, TRUE))]
          ELSE [st EXCEPT !.fs = r.fs, !.bf = r.bf,
                          !.failed_count = @ + 1,
                          !.log = Append(@, LogEntry(issue, TRUE, TRUE, TRUE, FALSE))]

\* one iteration of the loop of fixAll
fixAllStep(st, cb, im, issue, filter_severity, e) ==
    IF issue.severity > filter_severity
    THEN [st EXCEPT !.log = Append(@, LogEntry(issue, FALSE, FALSE, FALSE, FALSE))]
    ELSE
    LET fix_opt == generateFix(st.fs, issue, e.unset)
    IN IF ~fix_opt.some
       THEN [st EXCEPT !.log = Append(@, LogEntry(issue, TRUE, FALSE, FALSE, FALSE))]
       ELSE
       LET r == applyFix(st.fs, st.bf, cb, im, fix_opt.fix, NominalIO(e.response))
       IN IF r.ret
          THEN [st EXCEPT !.fs = r.fs, !.bf = r.bf,
                          !.fixed_count = @ + 1,
                          !.modified_files =
                              IF InSeq(@, fix_opt.fix.file_path) THEN @
                              ELSE Append(@, fix_opt.fix.file_path),
                          !.log = Append(@, LogEntry(issue, TRUE, TRUE, TRUE, TRUE))]
          ELSE [st EXCEPT !.fs = r.fs, !.bf = r.bf,
                          !.failed_count = @ + 1,
                          !.log = Append(@, LogEntry(issue, TRUE, TRUE, TRUE, FALSE))]

RECURSIVE fixAllLoop(_, _, _, _, _, _, _)
fixAllLoop(st, cb, im, issues, i, filter_severity, env) ==
    IF i > Len(issues) THEN st
    ELSE fixAllLoop(fixAllStep(st, cb, im, issues[i], filter_severity, env[i]),
                    cb, im, issues, i + 1, filter_severity, env)

FixResult(success, message, modified_files, fixed_count, failed_count) ==
    [success |-> success, message |-> message, modified_files |-> modified_files,
     fixed_count |-> fixed_count, failed_count |-> failed_count]

\* mutant of fixAllReturn: success is reported whatever the loop counted
fixAllReturnAlwaysSuccess(st) ==
    [result |-> FixResult(TRUE, "done", st.modified_files,
                          st.fixed_count, st.failed_count),
     fs |-> st.fs, bf |-> st.bf, log |-> st.log]

\* what fixAll returns once the loop has ended in st
fixAllReturn(st) ==
    [result |-> FixResult(st.failed_count = 0, "done", st.modified_files,
                          st.fixed_count, st.failed_count),
     fs |-> st.fs, bf |-> st.bf, log |-> st.log]

\* result: the FixResult returned, the state left behind, and the log
fixAll(fsys, bf, cb, im, issues, filter_severity, env) ==
    IF issues = << >>
    THEN [result |-> FixResult(TRUE, "nothing to fix", << >>, 0, 0),
          fs |-> fsys, bf |-> bf, log |-> << >>]
    ELSE fixAllReturn(fixAllLoop([fs |-> fsys, bf |-> bf, modified_files |-> << >>,
                                  fixed_count |-> 0, failed_count |-> 0,
                                  log |-> << >>],
                                 cb, im, issues, 1, filter_severity, env))

(***************************************************************************)
(* Inputs of the model.                                                    *)
(***************************************************************************)
\* texts an action carries: one include-like line, two lines
Texts == {<<"#">>, <<"#", LF, "x">>}

\* what the user types at the prompt
Responses == {<<"y">>, <<"n">>, << >>, <<SP, "Y", "E", "S", LF>>}

\* a FixAction without its target: [type, line_start, ..., new_code]
Shape(t, ls, le, cs, ce, code) ==
    [type |-> t, line_start |-> ls, line_end |-> le,
     column_start |-> cs, column_end |-> ce, new_code |-> code]

\* every edit within the bounds
Shapes ==
    {Shape("REPLACE", ls, ls, cs, ce, t) :
        ls \in 0..MaxLine, cs \in 0..MaxCol, ce \in 0..MaxCol, t \in Texts}
    \cup {Shape("INSERT", ls, ls, 0, 0, t) : ls \in 0..MaxLine, t \in Texts}
    \cup {Shape("DELETE", ls, le, 0, 0, << >>) : ls \in 0..MaxLine, le \in 0..MaxLine}
    \cup {Shape("ADD_INCLUDE", 1, 1, 0, 0, t) : t \in Texts}
    \cup {Shape("REWRITE", 1, 1, 0, 0, t) : t \in Texts}

\* one edit of each kind, and one that no file accepts
SessionShapes ==
    {Shape("REPLACE", 1, 1, 0, 0, <<"#", LF, "x">>),
     Shape("INSERT", 1, 1, 0, 0, <<"#">>),
     Shape("INSERT", 0, 0, 0, 0, <<"#">>),
     Shape("DELETE", 1, 1, 0, 0, << >>),
     Shape("ADD_INCLUDE", 1, 1, 0, 0, <<"#">>),
     Shape("REWRITE", 1, 1, 0, 0, <<"#", LF, "x">>)}

FixOn(shape, p) ==
    Fix(shape.type, p, shape.line_start, shape.line_end,
        shape.column_start, shape.column_end, shape.new_code)

\* one file-system call of the applyFix call fails (and, after a failed
\* write, the restoring copy may fail too)
FaultyIOs ==
    {[response |-> <<"y">>, copy_ok |-> FALSE, read_ok |-> TRUE,
      write |-> "ok", restore_ok |-> TRUE],
     [response |-> <<"y">>, copy_ok |-> TRUE, read_ok |-> FALSE,
      write |-> "ok", restore_ok |-> TRUE]}
    \cup {[response |-> <<"y">>, copy_ok |-> TRUE, read_ok |-> TRUE,
           write |-> w, restore_ok |-> r] :
             w \in WriteOutcomes \ {"ok"}, r \in BOOLEAN}

(***************************************************************************)
(* The state machine.  `last.held` is the edit the client holds: it is     *)
(* chosen freely at the start and applied to either file.  `last` records  *)
(* the last call: its arguments, its result and the state it started from. *)
(***************************************************************************)
InitWith(n, shapes, gs, cbs) ==
    /\ fs \in {[p \in AllPaths |->
                  IF p = PathF THEN File(c)
                  ELSE IF p = PathG THEN g
                  ELSE Absent] :
               c \in StringsUpTo(n), g \in gs}
    /\ create_backup_ \in cbs
    /\ interactive_mode_ = FALSE
    /\ backup_files_ = << >>
    /\ issues_ = << >>
    /\ last \in {[op |-> "init", held |-> h] : h \in shapes}
    /\ nfix = 0
    /\ rules_ = << >>
    /\ depth = 0

\* a session: two files (the second may be missing), backups on as the
\* constructor's default argument has them
Init == InitWith(MaxSessionLen, SessionShapes, {Absent, File(<<"x", LF>>)}, {TRUE})

\* one file, any edit, the fixer constructed with or without backups
InitEdit == InitWith(MaxLen, Shapes, {Absent}, BOOLEAN)

Held == last.held

ApplyFixWith(p, io) ==
    /\ nfix < MaxFixes
    /\ LET fix == FixOn(Held, p)
           r == applyFix(fs, backup_files_, create_backup_, interactive_mode_, fix, io)
       IN /\ fs' = r.fs
          /\ backup_files_' = r.bf
          /\ last' = [op |-> "applyFix", held |-> Held, fix |-> fix, ret |-> r.ret,
                      stage |-> r.stage, pre |-> fs[p], preFs |-> fs,
                      preBf |-> backup_files_, cb |-> create_backup_,
                      im |-> interactive_mode_, mid |-> r.mid, midbf |-> r.midbf,
                      restore_tried |-> r.restore_tried, io |-> io,
                      repeat |-> (last.op = "applyFix" /\ last.ret /\ last.fix = fix)]
    /\ nfix' = nfix + 1
    /\ UNCHANGED <<rules_, depth, create_backup_, interactive_mode_, issues_>>

\* applyFix, every file-system call succeeding
ApplyFix ==
    \E p \in Paths, response \in Responses :
        /\ (~interactive_mode_ => response = <<"y">>)
        /\ ApplyFixWith(p, NominalIO(response))

\* applyFix on the first file
ApplyFixF ==
    \E response \in Responses :
        /\ (~interactive_mode_ => response = <<"y">>)
        /\ ApplyFixWith(PathF, NominalIO(response))

\* applyFix on the first file, one file-system call failing
ApplyFixFaulty ==
    \E io \in FaultyIOs : ApplyFixWith(PathF, io)

RollbackWith(throwing) ==
    /\ LET r == rollback(fs, backup_files_, throwing)
       IN /\ fs' = r.fs
          /\ last' = [op |-> "rollback", held |-> Held, ret |-> r.ret, preFs |-> fs,
                      preBf |-> backup_files_, throwing |-> throwing,
                      prev |-> IF last.op = "applyFix" THEN last ELSE [op |-> last.op]]
    /\ backup_files_' = << >>
    /\ UNCHANGED <<rules_, depth, create_backup_, interactive_mode_, issues_, nfix>>

Rollback == RollbackWith({})

\* rollback, copy_file throwing for some backups
RollbackFaulty ==
    \E throwing \in (SUBSET {backup_files_[i] : i \in DOMAIN backup_files_}) \ {{}} :
        RollbackWith(throwing)

setBackupEnabled ==
    \E enable \in BOOLEAN :
        /\ enable # create_backup_
        /\ create_backup_' = enable
        /\ UNCHANGED <<rules_, depth, fs, interactive_mode_, backup_files_, issues_, last, nfix>>

setInteractiveMode ==
    \E enable \in BOOLEAN :
        /\ enable # interactive_mode_
        /\ interactive_mode_' = enable
        /\ UNCHANGED <<rules_, depth, fs, create_backup_, backup_files_, issues_, last, nfix>>

\* a backup file disappears between its creation and rollback
BackupDisappears ==
    \E p \in Paths :
        /\ Exists(fs, BackupPathOf(p))
        /\ fs' = [fs EXCEPT ![BackupPathOf(p)] = Absent]
        /\ last' = [op |-> "backupDisappears", held |-> Held]
        /\ UNCHANGED <<rules_, depth, create_backup_, interactive_mode_, backup_files_, issues_, nfix>>

\* sessions of a fixer whose file-system calls succeed
Next ==
    \/ ApplyFix
    \/ Rollback
    \/ setBackupEnabled
    \/ setInteractiveMode
    \/ BackupDisappears

Spec == Init /\ [][Next]_vars

\* any edit, applied to one file up to MaxFixes times, and rolled back
NextEdit ==
    \/ ApplyFixF
    \/ Rollback

SpecEdit == InitEdit /\ [][NextEdit]_vars

\* one file, one edit of each kind, file-system calls that may fail
InitIO == InitWith(MaxSessionLen, SessionShapes, {Absent}, BOOLEAN)

NextIO ==
    \/ ApplyFixF
    \/ ApplyFixFaulty
    \/ Rollback
    \/ RollbackFaulty
    \/ BackupDisappears

SpecIO == InitIO /\ [][NextIO]_vars

(***************************************************************************)
(* Batches: the analysis reports findings about two source files, then     *)
(* the client sets the fixer up, calls fixAll and may roll back.           *)
(***************************************************************************)
\* the first file holds an assignment in a condition and a call of gets
SourceF == <<"i", "f", "(", "x", "=", "y", ")", "\n", "g", "e", "t", "s", "(",
          "x", ")", "\n">>
\* the second file, when there is one, holds a call of strcpy
SourceG == <<"s", "t", "r", "c", "p", "y", "(", "x", ")", "\n">>

Desc_var == <<"p", "o", "i", "n", "t", "e", "r", " ", "'", "p", "'", " ", "m",
          "a", "y", " ", "b", "e", " ", "n", "u", "l", "l">>
Desc_var_type == <<"v", "a", "r", "i", "a", "b", "l", "e", " ", "'", "v", "'", " ",
          "o", "f", " ", "t", "y", "p", "e", " ", "'", "i", "n", "t", "'",
          " ", "i", "s", " ", "n", "o", "t", " ", "i", "n", "i", "t", "i",
          "a", "l", "i", "z", "e", "d">>
Desc_var_only == <<"v", "a", "r", "i", "a", "b", "l", "e", " ", "'", "v", "'", " ",
          "i", "s", " ", "n", "o", "t", " ", "i", "n", "i", "t", "i", "a",
          "l", "i", "z", "e", "d">>
Desc_plain == <<"u", "n", "s", "a", "f", "e">>

\* a finding without its severity: [file_path, line, rule_id, description]
Finding(p, line, rule, desc) ==
    [file_path |-> p, line |-> line, rule_id |-> rule, description |-> desc]

Findings ==
    {Finding(PathF, 1, "NULL-PTR-001", Desc_var),
     Finding(PathG, 3, "NULL-PTR-001", Desc_plain),
     Finding(PathF, 2, "UNINIT-VAR-001", Desc_var_type),
     Finding(PathF, 1, "UNINIT-VAR-001", Desc_var_only),
     Finding(PathF, 1, "ASSIGN-COND-001", Desc_plain),
     Finding(PathG, 1, "ASSIGN-COND-001", Desc_plain),
     Finding(PathF, 2, "UNSAFE-C-FUNC-001", Desc_plain),
     Finding(PathG, 1, "UNSAFE-C-FUNC-001", Desc_plain),
     Finding(PathG, 1, "MEMORY-LEAK-001", Desc_var),
     Finding(PathF, 1, "BUFFER-OVERFLOW-001", Desc_plain),
     Finding(PathF, 1, "INTEGER-OVERFLOW-001", Desc_plain),
     Finding(PathG, 1, "USE-AFTER-FREE-001", Desc_var),
     Finding(PathF, 1, "TAINT-001", Desc_plain)}

ReportedSeverities == {HIGH, LOW}

\* rules whose generator leaves column_start and column_end unset in an
\* action that applyFix reads them from (fixMemoryLeak leaves them unset
\* too, in an ADD_INCLUDE, which reads no column)
LeavesColumnsUnset == {"UNINIT-VAR-001", "ASSIGN-COND-001", "UNSAFE-C-FUNC-001"}

\* values found in the unset members; line_end is unset in the ADD_INCLUDE
\* of fixMemoryLeak only, where nothing reads it
NoUnset == [line_end |-> 0, column_start |-> 0, column_end |-> 0]

Unsets ==
    {[line_end |-> 0, column_start |-> a, column_end |-> b] :
        a \in 0..MaxCol, b \in 0..MaxCol}

Envs == {[unset |-> u, response |-> r] : u \in Unsets, r \in {<<"y">>, <<"n">>}}

\* an unset member that no generator copies, an answer nobody is asked for:
\* one value stands for all
EnvFits(issue, e, im, filter_severity) ==
    /\ (issue.rule_id \notin LeavesColumnsUnset \/ issue.severity > filter_severity =>
            e.unset = NoUnset)
    /\ (~im \/ issue.severity > filter_severity => e.response = <<"y">>)

InitFixAll ==
    /\ fs \in {[p \in AllPaths |->
                  IF p = PathF THEN File(SourceF)
                  ELSE IF p = PathG THEN g
                  ELSE Absent] : g \in {Absent, File(SourceG)}}
    /\ create_backup_ = TRUE
    /\ interactive_mode_ = FALSE
    /\ backup_files_ = << >>
    /\ issues_ = << >>
    /\ last = [op |-> "init", held |-> Shape("REWRITE", 1, 1, 0, 0, << >>)]
    /\ nfix = 0
    /\ rules_ = << >>
    /\ depth = 0

\* Reporter::addIssue, while the analysis runs
AddIssue ==
    /\ nfix = 0
    /\ Len(issues_) < MaxIssues
    /\ \E f \in Findings, sev \in ReportedSeverities :
          issues_' = addIssue(issues_, Issue(f.file_path, f.line, sev, f.rule_id,
                                             f.description))
    /\ UNCHANGED <<rules_, depth, fs, create_backup_, interactive_mode_, backup_files_, last, nfix>>

\* the state after a fixAll call that returned r
FixAllReturns(r, filter_severity) ==
    /\ fs' = r.fs
    /\ backup_files_' = r.bf
    /\ last' = [op |-> "fixAll", held |-> Held, filter_severity |-> filter_severity,
                result |-> r.result, log |-> r.log,
                preFs |-> fs, preBf |-> backup_files_]

FixAll ==
    /\ nfix < MaxBatches
    /\ \E filter_severity \in Severities, env \in [DOMAIN issues_ -> Envs] :
          /\ \A i \in DOMAIN issues_ : EnvFits(issues_[i], env[i], interactive_mode_,
                                              filter_severity)
          /\ FixAllReturns(fixAll(fs, backup_files_, create_backup_,
                                  interactive_mode_, issues_, filter_severity, env),
                           filter_severity)
    /\ nfix' = nfix + 1
    /\ UNCHANGED <<rules_, depth, create_backup_, interactive_mode_, issues_>>

\* the client undoes the batch
RollbackBatch ==
    /\ nfix > 0
    /\ Rollback

\* the client switches the prompt on or off before the batch
SetInteractive ==
    /\ nfix = 0
    /\ setInteractiveMode

NextFixAll ==
    \/ AddIssue
    \/ SetInteractive
    \/ FixAll
    \/ RollbackBatch

SpecFixAll == InitFixAll /\ [][NextFixAll]_vars

(***************************************************************************)
(* The rule engine (rules/rule_engine.cpp) over the reporter.  A rule is   *)
(* an object behind the Rule interface (rules/rule.h): what its check does *)
(* is the findings it adds, in order, and the way it ends.  A check ends   *)
(* by returning, by throwing an object derived from std::exception, or by  *)
(* throwing an object of any other type.                                   *)
(***************************************************************************)
Ends == {"returns", "std_exception", "other_exception"}

Rule(id, emits, ends) == [id |-> id, emits |-> emits, ends |-> ends]

RuleIds == {"NULL-PTR-001", "UNINIT-VAR-001"}

EmittedSeverities == {CRITICAL, HIGH}

\* the severities of the findings one check adds, in the order it adds them
RECURSIVE Emissions(_)
Emissions(n) ==
    IF n = 0 THEN {<< >>}
    ELSE LET shorter == Emissions(n - 1)
         IN shorter \cup {Append(s, sev) : s \in {t \in shorter : Len(t) = n - 1},
                                           sev \in EmittedSeverities}

Rules == {Rule(id, e, x) : id \in RuleIds, e \in Emissions(MaxEmits), x \in Ends}

\* RuleEngine::registerRule
registerRule(rules, rule) == Append(rules, rule)

\* RuleEngine::getRuleCount
getRuleCount(rules) == Len(rules)

\* Reporter::getIssueCount
getIssueCount(issues) == Len(issues)

\* mutant of getCriticalCount: a finding of severity HIGH counts as well
getCriticalCountOrHigh(issues) ==
    Cardinality({i \in DOMAIN issues : issues[i].severity <= HIGH})

\* Reporter::getCriticalCount
getCriticalCount(issues) ==
    Cardinality({i \in DOMAIN issues : issues[i].severity = CRITICAL})

\* Rule::check of the rule on the unit whose main file is `context`: the
\* k-th finding it adds is at line k
RECURSIVE check(_, _, _, _)
check(rule, context, issues, k) ==
    IF k > Len(rule.emits) THEN issues
    ELSE check(rule, context,
               addIssue(issues, Issue(context, k, rule.emits[k], rule.id, << >>)),
               k + 1)

\* one iteration of the loop of runAllRules: the try block and its catch
\* clause, which takes a std::exception only
\* mutant of runAllStep: the findings of a rule whose check fails are dropped
runAllStepTransactional(st, rules, i, context) ==
    LET ran == [st EXCEPT !.invoked = Append(@, i),
                          !.issues = check(rules[i], context, @, 1)]
        undone == [st EXCEPT !.invoked = Append(@, i)]
    IN IF rules[i].ends = "returns" THEN ran
       ELSE IF rules[i].ends = "std_exception"
            THEN [undone EXCEPT !.logged = Append(@, rules[i].id)]
            ELSE [undone EXCEPT !.escaped = TRUE]

runAllStep(st, rules, i, context) ==
    LET ran == [st EXCEPT !.invoked = Append(@, i),
                          !.issues = check(rules[i], context, @, 1)]
    IN IF rules[i].ends = "returns" THEN ran
       ELSE IF rules[i].ends = "std_exception"
            THEN [ran EXCEPT !.logged = Append(@, rules[i].id)]
            ELSE [ran EXCEPT !.escaped = TRUE]

RECURSIVE runAllLoop(_, _, _, _)
runAllLoop(st, rules, i, context) ==
    IF i > Len(rules) \/ st.escaped THEN st
    ELSE runAllLoop(runAllStep(st, rules, i, context), rules, i + 1, context)

\* RuleEngine::runAllRules: [issues, invoked, logged, escaped]; invoked
\* lists the positions in rules_ of the rules whose check was called,
\* logged the rule ids written to std::cerr, escaped tells that an
\* exception left runAllRules
runAllRules(rules, context, issues) ==
    runAllLoop([issues |-> issues, invoked |-> << >>, logged |-> << >>,
                escaped |-> FALSE], rules, 1, context)

\* the addIssue calls, with a severity of sevs, that the checks of the
\* invoked rules make
RECURSIVE AddCalls(_, _, _)
AddCalls(rules, invoked, sevs) ==
    IF invoked = << >> THEN 0
    ELSE Cardinality({k \in DOMAIN rules[Head(invoked)].emits :
                         rules[Head(invoked)].emits[k] \in sevs})
         + AddCalls(rules, Tail(invoked), sevs)

\* what the calls made so far amount to: the registerRule calls, and the
\* addIssue calls on the current reporter with those of severity CRITICAL
NoCalls == [registered |-> 0, added |-> 0, critical |-> 0]

InitEngine ==
    /\ fs = [p \in AllPaths |-> Absent]
    /\ create_backup_ = TRUE
    /\ interactive_mode_ = FALSE
    /\ backup_files_ = << >>
    /\ issues_ = << >>
    /\ last = [op |-> "init", calls |-> NoCalls]
    /\ nfix = 0
    /\ rules_ = << >>
    /\ depth = 0

RegisterRule ==
    /\ Len(rules_) < MaxRules
    /\ \E rule \in Rules :
          /\ rules_' = registerRule(rules_, rule)
          /\ last' = [op |-> "registerRule",
                      calls |-> [last.calls EXCEPT !.registered = @ + 1]]
    /\ UNCHANGED <<fs, create_backup_, interactive_mode_, backup_files_, issues_,
                   nfix, depth>>

RunAllReturns(r, context) ==
    /\ issues_' = r.issues
    /\ last' = [op |-> "runAllRules", context |-> context, invoked |-> r.invoked,
                logged |-> r.logged, escaped |-> r.escaped, preIssues |-> issues_,
                calls |-> [last.calls EXCEPT
                              !.added = @ + AddCalls(rules_, r.invoked, Severities),
                              !.critical = @ + AddCalls(rules_, r.invoked, {CRITICAL})]]

RunAllRules ==
    /\ nfix < MaxRuns
    /\ \E context \in Paths : RunAllReturns(runAllRules(rules_, context, issues_), context)
    /\ nfix' = nfix + 1
    /\ UNCHANGED <<fs, create_backup_, interactive_mode_, backup_files_, rules_, depth>>

\* the client constructs a new reporter for the next run
NewReporter ==
    /\ issues_ # << >>
    /\ issues_' = << >>
    /\ last' = [op |-> "Reporter", calls |-> [last.calls EXCEPT !.added = 0, !.critical = 0]]
    /\ UNCHANGED <<fs, create_backup_, interactive_mode_, backup_files_, nfix,
                   rules_, depth>>

NextEngine ==
    \/ RegisterRule
    \/ RunAllRules
    \/ NewReporter

SpecEngine == InitEngine /\ [][NextEngine]_vars

(***************************************************************************)
(* The taint analysis (analysis/taint_analysis.cpp, first translation      *)
(* unit, lines 1-787).  Function names are byte strings, as the tables of  *)
(* TaintSourceDB and TaintSinkDB are searched with std::string::find.      *)
(***************************************************************************)
\* std::isalnum in the C locale
Alnum == WordChars \ {"_"}

\* the test the name tables apply to a keyword: its first occurrence in
\* the name has no alphanumeric byte before it and none after it
WholeWordAt(func_name, keyword) ==
    LET pos == StrFind(func_name, keyword)
    IN /\ pos # NPOS
       /\ (pos = 0 \/ func_name[pos] \notin Alnum)
       /\ (pos + Len(keyword) >= Len(func_name)
           \/ func_name[pos + Len(keyword) + 1] \notin Alnum)

input_funcs ==
    {<<"g", "e", "t", "s">>,
     <<"f", "g", "e", "t", "s">>,
     <<"g", "e", "t", "l", "i", "n", "e">>,
     <<"s", "c", "a", "n", "f">>,
     <<"f", "s", "c", "a", "n", "f">>,
     <<"s", "s", "c", "a", "n", "f">>,
     <<"c", "i", "n">>,
     <<"g", "e", "t", "c", "h", "a", "r">>,
     <<"f", "g", "e", "t", "c">>,
     <<"r", "e", "a", "d">>,
     <<"r", "e", "c", "v">>,
     <<"r", "e", "c", "v", "f", "r", "o", "m">>,
     <<"s", "t", "d", ":", ":", "c", "i", "n">>,
     <<"s", "t", "d", ":", ":", "g", "e", "t", "l", "i", "n", "e">>,
     <<"g", "e", "t", "o", "p", "t">>,
     <<"g", "e", "t", "o", "p", "t", "_", "l", "o", "n", "g">>,
     <<"f", "r", "e", "a", "d">>,
     <<"g", "e", "t", "s", "_", "s">>,
     <<"f", "g", "e", "t", "s", "_", "s">>,
     <<"s", "t", "d", ":", ":", "c", "i", "n", ".", "g", "e", "t", "l",
       "i", "n", "e">>,
     <<"r", "e", "a", "d", "l", "i", "n", "k">>,
     <<"r", "e", "c", "v", "m", "s", "g">>,
     <<"i", "n", "p", "u", "t">>,
     <<"r", "e", "a", "d", "l", "i", "n", "e">>}

InputKeywords ==
    {<<"I", "n", "p", "u", "t">>,
     <<"R", "e", "a", "d">>,
     <<"R", "e", "c", "e", "i", "v", "e">>,
     <<"G", "e", "t">>}

\* TaintSourceDB::isUserInputFunction
isUserInputFunction(func_name) ==
    \/ func_name \in input_funcs
    \/ \E keyword \in InputKeywords : WholeWordAt(func_name, keyword)

network_funcs ==
    {<<"r", "e", "c", "v">>,
     <<"r", "e", "c", "v", "f", "r", "o", "m">>,
     <<"r", "e", "c", "v", "m", "s", "g">>,
     <<"r", "e", "a", "d">>,
     <<"r", "e", "a", "d", "v">>,
     <<"S", "S", "L", "_", "r", "e", "a", "d">>,
     <<"S", "S", "L", "_", "r", "e", "c", "v">>,
     <<"a", "c", "c", "e", "p", "t">>,
     <<"a", "c", "c", "e", "p", "t", "4">>,
     <<"B", "I", "O", "_", "r", "e", "a", "d">>,
     <<"g", "n", "u", "t", "l", "s", "_", "r", "e", "c", "o", "r", "d",
       "_", "r", "e", "c", "v">>,
     <<"m", "b", "e", "d", "t", "l", "s", "_", "s", "s", "l", "_", "r",
       "e", "a", "d">>}

\* TaintSourceDB::isNetworkFunction
isNetworkFunction(func_name) == func_name \in network_funcs

file_funcs ==
    {<<"f", "r", "e", "a", "d">>,
     <<"f", "g", "e", "t", "s">>,
     <<"f", "g", "e", "t", "c">>,
     <<"f", "s", "c", "a", "n", "f">>,
     <<"r", "e", "a", "d">>,
     <<"r", "e", "a", "d", "f", "i", "l", "e">>,
     <<"f", "i", "l", "e", "_", "g", "e", "t", "_", "c", "o", "n", "t",
       "e", "n", "t", "s">>,
     <<"p", "r", "e", "a", "d">>,
     <<"r", "e", "a", "d", "v">>,
     <<"m", "m", "a", "p">>,
     <<"s", "t", "d", ":", ":", "i", "f", "s", "t", "r", "e", "a", "m",
       ":", ":", "r", "e", "a", "d">>}

\* TaintSourceDB::isFileFunction
isFileFunction(func_name) == func_name \in file_funcs

Str_getenv == <<"g", "e", "t", "e", "n", "v">>
Str_std_getenv == <<"s", "t", "d", ":", ":", "g", "e", "t", "e", "n", "v">>

\* TaintAnalyzer::isEnvironmentSource
isEnvironmentSource(func_name) == func_name = Str_getenv \/ func_name = Str_std_getenv

\* TaintSourceDB::getTaintType
getTaintType(func_name) ==
    IF isUserInputFunction(func_name) THEN "USER_INPUT"
    ELSE IF isNetworkFunction(func_name) THEN "NETWORK_DATA"
    ELSE IF isFileFunction(func_name) THEN "FILE_DATA"
    ELSE IF isEnvironmentSource(func_name) THEN "ENVIRONMENT"
    ELSE "UNKNOWN"

sql_funcs ==
    {<<"m", "y", "s", "q", "l", "_", "q", "u", "e", "r", "y">>,
     <<"m", "y", "s", "q", "l", "_", "r", "e", "a", "l", "_", "q", "u",
       "e", "r", "y">>,
     <<"P", "Q", "e", "x", "e", "c">>,
     <<"P", "Q", "e", "x", "e", "c", "P", "a", "r", "a", "m", "s">>,
     <<"s", "q", "l", "i", "t", "e", "3", "_", "e", "x", "e", "c">>,
     <<"s", "q", "l", "i", "t", "e", "3", "_", "p", "r", "e", "p", "a",
       "r", "e">>,
     <<"e", "x", "e", "c">>,
     <<"e", "x", "e", "c", "u", "t", "e">>,
     <<"q", "u", "e", "r", "y">>,
     <<"e", "x", "e", "c", "u", "t", "e", "Q", "u", "e", "r", "y">>,
     <<"e", "x", "e", "c", "u", "t", "e", "S", "q", "l">>,
     <<"P", "Q", "e", "x", "e", "c", "P", "r", "e", "p", "a", "r", "e",
       "d">>,
     <<"s", "q", "l", "i", "t", "e", "3", "_", "p", "r", "e", "p", "a",
       "r", "e", "_", "v", "2">>,
     <<"s", "q", "l", "i", "t", "e", "3", "_", "p", "r", "e", "p", "a",
       "r", "e", "_", "v", "3">>,
     <<"M", "Y", "S", "Q", "L", "_", "S", "T", "M", "T", "_", "E", "X",
       "E", "C", "U", "T", "E">>,
     <<"O", "C", "I", "S", "t", "m", "t", "E", "x", "e", "c", "u", "t",
       "e">>}

SQLKeywords ==
    {<<"q", "u", "e", "r", "y">>,
     <<"Q", "u", "e", "r", "y">>,
     <<"e", "x", "e", "c">>,
     <<"E", "x", "e", "c">>,
     <<"s", "q", "l">>,
     <<"S", "q", "l">>,
     <<"S", "Q", "L">>}

\* TaintSinkDB::isSQLSinkFunction
isSQLSinkFunction(func_name) ==
    \/ func_name \in sql_funcs
    \/ \E keyword \in SQLKeywords : WholeWordAt(func_name, keyword)

cmd_funcs ==
    {<<"s", "y", "s", "t", "e", "m">>,
     <<"p", "o", "p", "e", "n">>,
     <<"e", "x", "e", "c">>,
     <<"e", "x", "e", "c", "l">>,
     <<"e", "x", "e", "c", "l", "p">>,
     <<"e", "x", "e", "c", "l", "e">>,
     <<"e", "x", "e", "c", "v">>,
     <<"e", "x", "e", "c", "v", "p">>,
     <<"e", "x", "e", "c", "v", "p", "e">>,
     <<"S", "h", "e", "l", "l", "E", "x", "e", "c", "u", "t", "e">>,
     <<"W", "i", "n", "E", "x", "e", "c">>,
     <<"C", "r", "e", "a", "t", "e", "P", "r", "o", "c", "e", "s", "s">>,
     <<"f", "o", "r", "k">>,
     <<"p", "o", "s", "i", "x", "_", "s", "p", "a", "w", "n">>,
     <<"w", "o", "r", "d", "e", "x", "p">>}

\* TaintSinkDB::isCommandSinkFunction
isCommandSinkFunction(func_name) == func_name \in cmd_funcs

path_funcs ==
    {<<"f", "o", "p", "e", "n">>,
     <<"o", "p", "e", "n">>,
     <<"o", "p", "e", "n", "a", "t">>,
     <<"c", "r", "e", "a", "t">>,
     <<"f", "r", "e", "o", "p", "e", "n">>,
     <<"r", "e", "m", "o", "v", "e">>,
     <<"u", "n", "l", "i", "n", "k">>,
     <<"r", "m", "d", "i", "r">>,
     <<"m", "k", "d", "i", "r">>,
     <<"c", "h", "m", "o", "d">>,
     <<"c", "h", "o", "w", "n">>,
     <<"l", "i", "n", "k">>,
     <<"s", "y", "m", "l", "i", "n", "k">>,
     <<"r", "e", "n", "a", "m", "e">>,
     <<"s", "t", "a", "t">>,
     <<"l", "s", "t", "a", "t">>}

\* TaintSinkDB::isFilePathSinkFunction
isFilePathSinkFunction(func_name) == func_name \in path_funcs

format_funcs ==
    {<<"p", "r", "i", "n", "t", "f">>,
     <<"s", "p", "r", "i", "n", "t", "f">>,
     <<"f", "p", "r", "i", "n", "t", "f">>,
     <<"s", "n", "p", "r", "i", "n", "t", "f">>}

\* TaintAnalyzer::isFormatStringSink
isFormatStringSink(func_name) == func_name \in format_funcs

sanitize_funcs ==
    {<<"e", "s", "c", "a", "p", "e">>,
     <<"s", "a", "n", "i", "t", "i", "z", "e">>,
     <<"v", "a", "l", "i", "d", "a", "t", "e">>,
     <<"f", "i", "l", "t", "e", "r">>,
     <<"h", "t", "m", "l", "s", "p", "e", "c", "i", "a", "l", "c", "h",
       "a", "r", "s">>,
     <<"m", "y", "s", "q", "l", "_", "r", "e", "a", "l", "_", "e", "s",
       "c", "a", "p", "e", "_", "s", "t", "r", "i", "n", "g">>,
     <<"p", "g", "_", "e", "s", "c", "a", "p", "e", "_", "s", "t", "r",
       "i", "n", "g">>,
     <<"q", "u", "o", "t", "e">>,
     <<"e", "s", "c", "a", "p", "e", "s", "h", "e", "l", "l", "a", "r",
       "g">>,
     <<"t", "r", "i", "m">>,
     <<"s", "t", "r", "i", "p">>,
     <<"c", "l", "e", "a", "n">>,
     <<"p", "u", "r", "i", "f", "y">>}

\* TaintAnalyzer::isSanitizationFunction
isSanitizationFunction(func_name) ==
    \/ func_name \in sanitize_funcs
    \/ \E sf \in sanitize_funcs : WholeWordAt(func_name, sf)

RISK_SQL == <<"S", "Q", "L", "E6", "B3", "A8", "E5", "85", "A5">>
RISK_COMMAND == <<"E5", "91", "BD", "E4", "BB", "A4", "E6", "B3", "A8", "E5", "85",
      "A5">>
RISK_PATH == <<"E8", "B7", "AF", "E5", "BE", "84", "E9", "81", "8D", "E5", "8E",
      "86">>
RISK_DATA == <<"E6", "95", "B0", "E6", "8D", "AE", "E6", "B1", "A1", "E6", "9F",
      "93">>

\* TaintSinkDB::getRiskType
getRiskType(func_name) ==
    IF isSQLSinkFunction(func_name) THEN RISK_SQL
    ELSE IF isCommandSinkFunction(func_name) THEN RISK_COMMAND
    ELSE IF isFilePathSinkFunction(func_name) THEN RISK_PATH
    ELSE RISK_DATA

\* TaintSinkDB::getSeverity
getSeverity(func_name) ==
    IF isSQLSinkFunction(func_name) THEN CRITICAL
    ELSE IF isCommandSinkFunction(func_name) THEN CRITICAL
    ELSE IF isFilePathSinkFunction(func_name) THEN HIGH
    ELSE MEDIUM

\* the recursion limit of propagateTaint
MAX_DEPTH == 1000

(***************************************************************************)
(* The statements the analyzer walks.  A node has its children in the      *)
(* order of Stmt::children().  CompoundStmt(levels, children) stands for   *)
(* `levels` compound statements nested in one another, the innermost one   *)
(* holding the children.                                                   *)
(***************************************************************************)
DeclRefExpr(name) == [kind |-> "DeclRefExpr", name |-> name, children |-> << >>]

ImplicitCastExpr(sub) == [kind |-> "ImplicitCastExpr", children |-> <<sub>>]

\* f(v1, ..., vn) at line:column; the children are the callee and the
\* arguments, each a variable read through an implicit cast
CallExpr(callee, names, line, column) ==
    [kind |-> "CallExpr", callee |-> callee, line |-> line, column |-> column,
     children |-> <<ImplicitCastExpr(DeclRefExpr(callee))>>
                  \o [i \in DOMAIN names |-> ImplicitCastExpr(DeclRefExpr(names[i]))]]

\* lhs = rhs, at the start of a line
Assign(lhs, rhs, line) ==
    [kind |-> "BinaryOperator", opcode |-> "BO_Assign", line |-> line, column |-> 1,
     children |-> <<DeclRefExpr(lhs), rhs>>]

CompoundStmt(levels, children) ==
    [kind |-> "CompoundStmt", levels |-> levels, children |-> children]

\* the nodes, nested in one another, that a node of the model stands for
Levels(stmt) == IF stmt.kind = "CompoundStmt" THEN stmt.levels ELSE 1

\* CallExpr::getNumArgs, CallExpr::getArg (i counts from 0)
getNumArgs(call) == Len(call.children) - 1
getArg(call, i) == call.children[i + 2]

\* Expr::IgnoreImpCasts
RECURSIVE IgnoreImpCasts(_)
IgnoreImpCasts(expr) ==
    IF expr.kind = "ImplicitCastExpr" THEN IgnoreImpCasts(expr.children[1]) ELSE expr

\* TaintAnalyzer::getVariableName, for the expressions above
getVariableName(expr) ==
    IF IgnoreImpCasts(expr).kind = "DeclRefExpr" THEN IgnoreImpCasts(expr).name ELSE ""

\* TaintAnalyzer::getFunctionName
getFunctionName(call) == call.callee

TaintSource(variable_name, type, line, column, description) ==
    [variable_name |-> variable_name, type |-> type, line |-> line,
     column |-> column, description |-> description]

TaintSink(function_name, tainted_args, line, column, risk_type, severity) ==
    [function_name |-> function_name, tainted_args |-> tainted_args, line |-> line,
     column |-> column, risk_type |-> risk_type, severity |-> severity]

TaintPath(source, sink) ==
    [source |-> source, propagation |-> <<source.variable_name>>, sink |-> sink]

NoSources == [v \in {} |-> v]

\* mutant of markTainted: the source of the taint is not kept
markTaintedNoSource(st, var_name, source) ==
    IF var_name = "" THEN st
    ELSE [st EXCEPT !.tainted_vars_ = @ \cup {var_name}]

\* TaintAnalyzer::markTainted
markTainted(st, var_name, source) ==
    IF var_name = "" THEN st
    ELSE [st EXCEPT !.tainted_vars_ = @ \cup {var_name},
                    !.taint_sources_ = [v \in DOMAIN @ \cup {var_name} |->
                                           IF v = var_name THEN source ELSE @[v]]]

\* TaintAnalyzer::isTainted
isTainted(st, var_name) == var_name # "" /\ var_name \in st.tainted_vars_

\* the four source tests of the assignment branch
IsTaintSource(call) ==
    \/ isUserInputFunction(getFunctionName(call))
    \/ isNetworkFunction(getFunctionName(call))
    \/ isFileFunction(getFunctionName(call))
    \/ isEnvironmentSource(getFunctionName(call))

Str_TaintedDataFrom ==
    <<"T", "a", "i", "n", "t", "e", "d", " ", "d", "a", "t", "a", " ", "f", "r",
      "o", "m", " ">>

\* propagateTaint, the branch for an assignment: the taint of the right
\* side goes to the left side, and a call of a source taints the left side
TaintOfCopy(st, lhs, rhs) ==
    IF rhs # "" /\ isTainted(st, rhs) /\ rhs \in DOMAIN st.taint_sources_
    THEN markTainted(st, lhs, [st.taint_sources_[rhs] EXCEPT !.variable_name = lhs])
    ELSE st

TaintOfSourceCall(st, lhs, rhsExpr) ==
    IF rhsExpr.kind = "CallExpr" /\ IsTaintSource(rhsExpr)
    THEN markTainted(st, lhs,
                     TaintSource(lhs, getTaintType(getFunctionName(rhsExpr)),
                                 rhsExpr.line, rhsExpr.column,
                                 Str_TaintedDataFrom \o getFunctionName(rhsExpr)))
    ELSE st

\* mutant of TaintOfAssignment: an assignment of untainted data clears the
\* taint of the left side
TaintOfAssignmentKills(st, stmt) ==
    IF stmt.kind = "BinaryOperator" /\ stmt.opcode = "BO_Assign"
       /\ getVariableName(stmt.children[1]) # ""
    THEN IF \/ isTainted(st, getVariableName(stmt.children[2]))
            \/ stmt.children[2].kind = "CallExpr" /\ IsTaintSource(stmt.children[2])
         THEN TaintOfSourceCall(TaintOfCopy(st, getVariableName(stmt.children[1]),
                                            getVariableName(stmt.children[2])),
                                getVariableName(stmt.children[1]), stmt.children[2])
         ELSE [st EXCEPT
                  !.tainted_vars_ = @ \ {getVariableName(stmt.children[1])},
                  !.taint_sources_ =
                      [v \in DOMAIN @ \ {getVariableName(stmt.children[1])} |-> @[v]]]
    ELSE st

TaintOfAssignment(st, stmt) ==
    IF stmt.kind = "BinaryOperator" /\ stmt.opcode = "BO_Assign"
       /\ getVariableName(stmt.children[1]) # ""
    THEN TaintOfSourceCall(TaintOfCopy(st, getVariableName(stmt.children[1]),
                                       getVariableName(stmt.children[2])),
                           getVariableName(stmt.children[1]), stmt.children[2])
    ELSE st

\* mutant of Sanitize: the variable stays in tainted_vars_
RECURSIVE SanitizeSourcesOnly(_, _, _)
SanitizeSourcesOnly(st, call, i) ==
    IF i >= getNumArgs(call) THEN st
    ELSE SanitizeSourcesOnly(
             [st EXCEPT !.taint_sources_ =
                            [v \in DOMAIN @ \ {getVariableName(getArg(call, i))} |-> @[v]]],
             call, i + 1)

\* the sanitizer branch: every argument that is a variable loses its taint
RECURSIVE Sanitize(_, _, _)
Sanitize(st, call, i) ==
    IF i >= getNumArgs(call) THEN st
    ELSE IF getVariableName(getArg(call, i)) = "" THEN Sanitize(st, call, i + 1)
    ELSE Sanitize([st EXCEPT
                      !.tainted_vars_ = @ \ {getVariableName(getArg(call, i))},
                      !.taint_sources_ =
                          [v \in DOMAIN @ \ {getVariableName(getArg(call, i))} |-> @[v]]],
                  call, i + 1)

\* mutant of reportTaintFlow: the finding is added, the path is not recorded
reportTaintFlowNoPath(st, main_file, source, sink, env) ==
    [st EXCEPT !.reports = @ + 1,
               !.thrown = (env.fail = st.reports + 1),
               !.issues = IF env.fail = st.reports + 1 THEN @
                          ELSE addIssue(@, Issue(main_file, sink.line, sink.severity,
                                                 "TAINT-ANALYSIS-001",
                                                 <<sink.risk_type, source.variable_name,
                                                   source.line, sink.function_name>>))]

\* TaintAnalyzer::reportTaintFlow.  The description of the finding is kept
\* as its variable parts: risk type, variable, source line, sink function.
\* env.fail = k: the k-th addIssue call of the check throws std::bad_alloc.
reportTaintFlow(st, main_file, source, sink, env) ==
    [st EXCEPT !.taint_paths_ = Append(@, TaintPath(source, sink)),
               !.reports = @ + 1,
               !.thrown = (env.fail = st.reports + 1),
               !.issues = IF env.fail = st.reports + 1 THEN @
                          ELSE addIssue(@, Issue(main_file, sink.line, sink.severity,
                                                 "TAINT-ANALYSIS-001",
                                                 <<sink.risk_type, source.variable_name,
                                                   source.line, sink.function_name>>))]

IsTaintSink(call) ==
    \/ isSQLSinkFunction(getFunctionName(call))
    \/ isCommandSinkFunction(getFunctionName(call))
    \/ isFilePathSinkFunction(getFunctionName(call))
    \/ isFormatStringSink(getFunctionName(call))

\* the sink branch: one report for every argument that is tainted
RECURSIVE ReportArgs(_, _, _, _, _)
ReportArgs(st, main_file, call, i, env) ==
    IF i >= getNumArgs(call) \/ st.thrown THEN st
    ELSE IF /\ isTainted(st, getVariableName(getArg(call, i)))
            /\ getVariableName(getArg(call, i)) \in DOMAIN st.taint_sources_
         THEN ReportArgs(
                  reportTaintFlow(st, main_file,
                                  st.taint_sources_[getVariableName(getArg(call, i))],
                                  TaintSink(getFunctionName(call), <<i>>, call.line,
                                            call.column,
                                            getRiskType(getFunctionName(call)),
                                            getSeverity(getFunctionName(call))),
                                  env),
                  main_file, call, i + 1, env)
         ELSE ReportArgs(st, main_file, call, i + 1, env)

\* propagateTaint, the branch for a call
TaintOfCall(st, main_file, stmt, env) ==
    IF stmt.kind # "CallExpr" THEN st
    ELSE IF isSanitizationFunction(getFunctionName(stmt)) THEN Sanitize(st, stmt, 0)
    ELSE IF IsTaintSink(stmt) THEN ReportArgs(st, main_file, stmt, 0, env)
    ELSE st

\* what the walk did, node by node: an entry for every assignment and
\* every call whose branch of propagateTaint ran, with the tainted set the
\* branch left and the number of flows it reported, and an entry for every
\* warning written
Analysed(st, stmt, before) ==
    IF stmt.kind \in {"BinaryOperator", "CallExpr"}
    THEN [st EXCEPT !.log = Append(@, [kind |-> stmt.kind,
                                        fn |-> Len(st.analyzed) + 1,
                                        line |-> stmt.line, column |-> stmt.column,
                                        name |-> IF stmt.kind = "CallExpr"
                                                 THEN getFunctionName(stmt) ELSE << >>,
                                        vars |-> IF stmt.kind = "CallExpr"
                                                 THEN [i \in 1..getNumArgs(stmt) |->
                                                          getVariableName(getArg(stmt, i - 1))]
                                                 ELSE <<getVariableName(stmt.children[1])>>,
                                        rhs |-> IF stmt.kind = "CallExpr" THEN ""
                                                ELSE getVariableName(stmt.children[2]),
                                        src |-> /\ stmt.kind = "BinaryOperator"
                                                /\ stmt.children[2].kind = "CallExpr"
                                                /\ IsTaintSource(stmt.children[2]),
                                        tainted |-> st.tainted_vars_,
                                        sources |-> DOMAIN st.taint_sources_,
                                        reported |-> st.reports - before])]
    ELSE st

Warned(st) ==
    [st EXCEPT !.warnings = @ + 1,
               !.log = Append(@, [kind |-> "warning", fn |-> Len(st.analyzed) + 1,
                                  line |-> 0, column |-> 0, name |-> << >>,
                                  vars |-> << >>, rhs |-> "", src |-> FALSE,
                                  tainted |-> st.tainted_vars_,
                                  sources |-> DOMAIN st.taint_sources_,
                                  reported |-> 0])]

\* the end of the `if (depth < MAX_DEPTH)` block: depth-- for every level,
\* which an exception passing through skips
Ascend(st, n) == IF st.thrown THEN st ELSE [st EXCEPT !.depth = @ - n]

RECURSIVE propagateTaint(_, _, _, _)
RECURSIVE propagateChildren(_, _, _, _, _)

\* the loop over stmt->children()
propagateChildren(st, main_file, children, i, env) ==
    IF i > Len(children) \/ st.thrown THEN st
    ELSE propagateChildren(propagateTaint(st, main_file, children[i], env),
                           main_file, children, i + 1, env)

\* mutant of Descend: at the limit the walk of the function is given up
DescendOrGiveUp(st, main_file, stmt, env) ==
    IF st.thrown \/ st.warnings > 0 THEN st
    ELSE IF st.depth + Levels(stmt) <= MAX_DEPTH
         THEN Ascend(propagateChildren([st EXCEPT !.depth = @ + Levels(stmt)],
                                       main_file, stmt.children, 1, env),
                     Levels(stmt))
         ELSE Warned(st)

\* the recursion of propagateTaint: every level of the node is entered
\* with depth < MAX_DEPTH, or the level entered with depth = MAX_DEPTH
\* writes the warning and its children are left out
Descend(st, main_file, stmt, env) ==
    IF st.thrown THEN st
    ELSE IF st.depth + Levels(stmt) <= MAX_DEPTH
         THEN Ascend(propagateChildren([st EXCEPT !.depth = @ + Levels(stmt)],
                                       main_file, stmt.children, 1, env),
                     Levels(stmt))
         ELSE Warned(st)

\* TaintAnalyzer::propagateTaint
propagateTaint(st, main_file, stmt, env) ==
    Descend(Analysed(TaintOfCall(TaintOfAssignment(st, stmt), main_file, stmt, env),
                     stmt, st.reports),
            main_file, stmt, env)

\* the walk of a function body starts: what the two sets hold then
Started(st) ==
    [st EXCEPT !.starts = Append(@, [tainted |-> st.tainted_vars_,
                                     sources |-> DOMAIN st.taint_sources_])]

\* the analyzer of a function goes out of scope; `returned` keeps the
\* depth at which the walk of the body returned
LeaveFunction(st) ==
    [st EXCEPT !.analyzed = Append(@, st.taint_paths_),
               !.returned = IF st.thrown THEN @ ELSE Append(@, st.depth)]

\* TaintAnalysisVisitor::VisitFunctionDecl with analyzeFunction: a new
\* analyzer for the function; `analyzed` keeps the taint paths of every
\* analyzer, function by function
analyzeFunction(st, main_file, function, env) ==
    IF ~function.hasBody THEN st
    ELSE LeaveFunction(propagateTaint(Started([st EXCEPT !.tainted_vars_ = {},
                                                         !.taint_sources_ = NoSources,
                                                         !.taint_paths_ = << >>]),
                                      main_file, function.body, env))

\* the state of a check before it has visited a function
WalkStart(issues, d) ==
    [tainted_vars_ |-> {}, taint_sources_ |-> NoSources, taint_paths_ |-> << >>,
     analyzed |-> << >>, starts |-> << >>, returned |-> << >>,
     issues |-> issues, depth |-> d, warnings |-> 0,
     reports |-> 0, thrown |-> FALSE, log |-> << >>]

RECURSIVE TraverseDecl(_, _, _, _)
TraverseDecl(st, context, i, env) ==
    IF i > Len(context.functions) \/ st.thrown THEN st
    ELSE TraverseDecl(analyzeFunction(st, context.main_file, context.functions[i], env),
                      context, i + 1, env)

\* TaintAnalysisRule::check on a reporter that holds `issues`, the static
\* depth of propagateTaint being `d` at the call
TaintAnalysisRule_check(context, issues, d, env) ==
    IF context.null THEN WalkStart(issues, d)
    ELSE TraverseDecl(WalkStart(issues, d), context, 1, env)

(***************************************************************************)
(* The memory-leak rule (rules/memory_leak_rule.cpp).  A unit is a list of *)
(* nodes in traversal order: a variable initialised with new, a delete of  *)
(* a variable, a return of a variable.                                     *)
(***************************************************************************)
VarDeclNew(var, line) == [kind |-> "VarDecl", var |-> var, line |-> line]
CXXDeleteExpr(var, line) == [kind |-> "CXXDeleteExpr", var |-> var, line |-> line]
ReturnStmt(var, line) == [kind |-> "ReturnStmt", var |-> var, line |-> line]

NoAllocations == [v \in {} |-> v]

\* MemoryLeakVisitor::VisitVarDecl
VisitVarDecl(allocations, decl) ==
    [v \in DOMAIN allocations \cup {decl.var} |->
        IF v = decl.var
        THEN [location |-> decl.line, variable_name |-> decl.var,
              is_deleted |-> FALSE, is_returned |-> FALSE]
        ELSE allocations[v]]

\* MemoryLeakVisitor::VisitCXXDeleteExpr
VisitCXXDeleteExpr(allocations, deleteExpr) ==
    IF deleteExpr.var \in DOMAIN allocations
    THEN [allocations EXCEPT ![deleteExpr.var].is_deleted = TRUE]
    ELSE allocations

\* MemoryLeakVisitor::VisitReturnStmt
VisitReturnStmt(allocations, returnStmt) ==
    IF returnStmt.var \in DOMAIN allocations
    THEN [allocations EXCEPT ![returnStmt.var].is_returned = TRUE]
    ELSE allocations

\* the traversal of a unit by the visitor: the allocations it has recorded
\* at the end
RECURSIVE Traverse(_, _, _)
Traverse(allocations, nodes, i) ==
    IF i > Len(nodes) THEN allocations
    ELSE Traverse(IF nodes[i].kind = "VarDecl" THEN VisitVarDecl(allocations, nodes[i])
                  ELSE IF nodes[i].kind = "CXXDeleteExpr"
                       THEN VisitCXXDeleteExpr(allocations, nodes[i])
                       ELSE VisitReturnStmt(allocations, nodes[i]),
                  nodes, i + 1)

\* MemoryLeakVisitor::checkForLeak for a variable of raw pointer type: the
\* description of the finding is kept as the variable's name
checkForLeak(issues, main_file, info) ==
    IF info.is_deleted \/ info.is_returned THEN issues
    ELSE addIssue(issues, Issue(main_file, info.location, HIGH, "MEMORY-LEAK-001",
                                <<info.variable_name>>))

\* MemoryLeakRule::check: the visitor traverses the unit and goes out of
\* scope; nothing reads the allocations it has recorded
MemoryLeakRule_check(context, issues) ==
    [issues |-> issues, allocations |-> Traverse(NoAllocations, context.nodes, 1)]

(***************************************************************************)
(* Inputs of the analyses.                                                 *)
(***************************************************************************)
Fn_read_input == <<"r", "e", "a", "d", "_", "i", "n", "p", "u", "t">>
Fn_input == <<"i", "n", "p", "u", "t">>
Fn_query == <<"q", "u", "e", "r", "y">>
Fn_system == <<"s", "y", "s", "t", "e", "m">>
Fn_sanitize == <<"s", "a", "n", "i", "t", "i", "z", "e">>

SourceNames == {Fn_read_input, Fn_input, Str_getenv}
SinkNames == {Fn_query, Fn_system}

\* the compound statements around the middle statements of a function
NestLevels == {0, MAX_DEPTH - 2, MAX_DEPTH - 1, MAX_DEPTH}

\* line 2: y = x;  line 3: y = sanitize(y);  line 4: sink(y);
Middle(sanitized, sink) ==
    <<Assign("y", ImplicitCastExpr(DeclRefExpr("x")), 2)>>
    \o (IF sanitized THEN <<Assign("y", CallExpr(Fn_sanitize, <<"y">>, 3, 5), 3)>>
        ELSE << >>)
    \o <<CallExpr(sink, <<"y">>, 4, 1)>>

\* line 1: x = src();  the middle statements, in `levels` compound
\* statements;  line 5: sink(x);
FlowBody(src, sanitized, sink, levels, tail) ==
    CompoundStmt(1,
        <<Assign("x", CallExpr(src, << >>, 1, 5), 1)>>
        \o (IF levels = 0 THEN Middle(sanitized, sink)
            ELSE <<CompoundStmt(levels, Middle(sanitized, sink))>>)
        \o (IF tail THEN <<CallExpr(sink, <<"x">>, 5, 1)>> ELSE << >>))

FunctionDecl(body) == [hasBody |-> TRUE, body |-> body]
Declaration == [hasBody |-> FALSE]

\* line 7: x = input();  line 8: query(x);  line 9: y = getenv();
\* line 10: query(x, y, z);  line 11: x = z;  line 12: query(x);
SecondFunction ==
    FunctionDecl(CompoundStmt(1, <<Assign("x", CallExpr(Fn_input, << >>, 7, 5), 7),
                                   CallExpr(Fn_query, <<"x">>, 8, 1),
                                   Assign("y", CallExpr(Str_getenv, << >>, 9, 5), 9),
                                   CallExpr(Fn_query, <<"x", "y", "z">>, 10, 1),
                                   Assign("x", ImplicitCastExpr(DeclRefExpr("z")), 11),
                                   CallExpr(Fn_query, <<"x">>, 12, 1)>>))

\* what follows the first function: nothing, or a declaration and a function
Seconds == {<< >>, <<Declaration, SecondFunction>>}

TaintUnit(src, sanitized, sink, levels, tail, second) ==
    [null |-> FALSE, main_file |-> PathF,
     functions |-> <<FunctionDecl(FlowBody(src, sanitized, sink, levels, tail))>>
                   \o second]

NullContext == [null |-> TRUE]

TaintUnits ==
    {TaintUnit(src, sanitized, sink, levels, tail, second) :
        src \in SourceNames, sanitized \in BOOLEAN, sink \in SinkNames,
        levels \in NestLevels, tail \in BOOLEAN, second \in Seconds}
    \cup {NullContext}

LeakVars == {"p", "q"}

LeakNodes(line) ==
    {VarDeclNew(v, line) : v \in LeakVars}
    \cup {CXXDeleteExpr(v, line) : v \in LeakVars}
    \cup {ReturnStmt(v, line) : v \in LeakVars}

RECURSIVE LeakNodeLists(_)
LeakNodeLists(n) ==
    IF n = 0 THEN {<< >>}
    ELSE LET shorter == LeakNodeLists(n - 1)
         IN shorter \cup {Append(s, node) : s \in {t \in shorter : Len(t) = n - 1},
                                           node \in LeakNodes(n)}

LeakUnits == {[main_file |-> PathF, nodes |-> nodes] : nodes \in LeakNodeLists(MaxNodes)}

(***************************************************************************)
(* The analyses run one after another in one thread, each on a reporter    *)
(* that has just been constructed.                                         *)
(***************************************************************************)
InitAnalysis ==
    /\ fs = [p \in AllPaths |-> Absent]
    /\ create_backup_ = TRUE
    /\ interactive_mode_ = FALSE
    /\ backup_files_ = << >>
    /\ issues_ = << >>
    /\ last = [op |-> "init"]
    /\ nfix = 0
    /\ rules_ = << >>
    /\ depth = 0

TaintCheckReturns(r, context, fail) ==
    /\ (fail = 0 \/ r.thrown)
    /\ issues_' = r.issues
    /\ depth' = r.depth
    /\ last' = [op |-> "TaintAnalysisRule::check", context |-> context, fail |-> fail,
                preDepth |-> depth, thrown |-> r.thrown, warnings |-> r.warnings,
                analyzed |-> r.analyzed, starts |-> r.starts, returned |-> r.returned,
                log |-> r.log]

\* TaintAnalysisRule::check(context, reporter)
TaintCheck ==
    /\ nfix < MaxChecks
    /\ \E context \in TaintUnits, fail \in 0..MaxThrowAt :
          TaintCheckReturns(TaintAnalysisRule_check(context, << >>, depth,
                                                    [fail |-> fail]),
                            context, fail)
    /\ nfix' = nfix + 1
    /\ UNCHANGED <<fs, create_backup_, interactive_mode_, backup_files_, rules_>>

LeakCheckReturns(r, context) ==
    /\ issues_' = r.issues
    /\ last' = [op |-> "MemoryLeakRule::check", context |-> context,
                allocations |-> r.allocations]

\* MemoryLeakRule::check(context, reporter)
MemoryLeakCheck ==
    /\ nfix < MaxChecks
    /\ \E context \in LeakUnits :
          LeakCheckReturns(MemoryLeakRule_check(context, << >>), context)
    /\ nfix' = nfix + 1
    /\ UNCHANGED <<fs, create_backup_, interactive_mode_, backup_files_, rules_, depth>>

NextAnalysis ==
    \/ TaintCheck
    \/ MemoryLeakCheck

SpecAnalysis == InitAnalysis /\ [][NextAnalysis]_vars

(***************************************************************************)
(* The buffer-overflow rule (rules/rule_engine.cpp, second translation     *)
(* unit, and rules/buffer_overflow_rule.h).  A unit is a list of nodes in  *)
(* traversal order: declarations of a variable, of constant array type or  *)
(* not, and subscripts of a variable.  The node at position k is at line   *)
(* k.  A constant index is the llvm::APSInt its evaluation gives: the      *)
(* width and the signedness of the type of the index expression, and the   *)
(* bits of the value as an unsigned number.                                *)
(***************************************************************************)
APSInt(BitWidth, IsUnsigned, VAL) ==
    [constant |-> TRUE, BitWidth |-> BitWidth, IsUnsigned |-> IsUnsigned, VAL |-> VAL]

\* an index expression that EvaluateAsInt does not evaluate
NonConstantIndex == [constant |-> FALSE]

\* a VarDecl: size is the number of elements of a ConstantArrayType, -1
\* stands for any other type
ArrayVarDecl(var, size) == [kind |-> "VarDecl", var |-> var, size |-> size]

ArraySubscriptExpr(var, index) ==
    [kind |-> "ArraySubscriptExpr", var |-> var, index |-> index]

\* llvm::APInt::getSExtValue: the bits read as a two's complement number
\* of BitWidth bits, whatever the signedness of the APSInt
getSExtValue(int) ==
    IF int.VAL >= 2 ^ (int.BitWidth - 1) THEN int.VAL - 2 ^ int.BitWidth ELSE int.VAL

\* llvm::APInt::getZExtValue of the size of the array type
NoArraySizes == [v \in {} |-> 0]

\* BufferOverflowVisitor::VisitVarDecl
BufferOverflowVisitor_VisitVarDecl(arraySizes, decl) ==
    IF decl.size >= 0
    THEN [v \in DOMAIN arraySizes \cup {decl.var} |->
             IF v = decl.var THEN decl.size ELSE arraySizes[v]]
    ELSE arraySizes

\* BufferOverflowVisitor::tryGetConstantIndex: [ok, value]
tryGetConstantIndex(expr) ==
    IF expr.constant THEN [ok |-> TRUE, value |-> getSExtValue(expr)]
    ELSE [ok |-> FALSE, value |-> 0]

\* BufferOverflowVisitor::VisitArraySubscriptExpr; the description of a
\* finding is kept as <<what, array size, index value>>
VisitArraySubscriptExpr(issues, arraySizes, main_file, expr, line) ==
    IF expr.var \notin DOMAIN arraySizes
    THEN IF tryGetConstantIndex(expr.index).ok /\ tryGetConstantIndex(expr.index).value < 0
         THEN addIssue(issues, Issue(main_file, line, CRITICAL, "BUFFER-OVERFLOW-001",
                                     <<"negative index", -1,
                                       tryGetConstantIndex(expr.index).value>>))
         ELSE issues
    ELSE IF tryGetConstantIndex(expr.index).ok
         THEN IF \/ tryGetConstantIndex(expr.index).value < 0
                 \/ tryGetConstantIndex(expr.index).value >= arraySizes[expr.var]
              THEN addIssue(issues,
                            Issue(main_file, line, CRITICAL, "BUFFER-OVERFLOW-001",
                                  <<IF tryGetConstantIndex(expr.index).value < 0
                                    THEN "underflow" ELSE "overflow",
                                    arraySizes[expr.var],
                                    tryGetConstantIndex(expr.index).value>>))
              ELSE issues
         ELSE IF arraySizes[expr.var] <= 10
              THEN addIssue(issues, Issue(main_file, line, LOW, "BUFFER-OVERFLOW-001",
                                          <<"non-constant index", arraySizes[expr.var], 0>>))
              ELSE issues

\* the traversal of the unit by the visitor
RECURSIVE BufferTraverse(_, _, _, _)
BufferTraverse(issues, arraySizes, context, k) ==
    IF k > Len(context.nodes) THEN issues
    ELSE IF context.nodes[k].kind = "VarDecl"
         THEN BufferTraverse(issues,
                             BufferOverflowVisitor_VisitVarDecl(arraySizes, context.nodes[k]),
                             context, k + 1)
         ELSE BufferTraverse(VisitArraySubscriptExpr(issues, arraySizes, context.main_file,
                                                     context.nodes[k], k),
                             arraySizes, context, k + 1)

\* BufferOverflowRule::check
BufferOverflowRule_check(context, issues) ==
    BufferTraverse(issues, NoArraySizes, context, 1)

\* index constants of the types signed char, unsigned char, short and
\* unsigned short
IndexConstants ==
    {APSInt(8, u, v) : u \in BOOLEAN, v \in {0, 4, 5, 200, 255}}
    \cup {APSInt(16, u, v) : u \in BOOLEAN, v \in {9, 10, 11, 65535}}

ArraySizes == {5, 10, 11, 256}

AccessNodes ==
    {ArrayVarDecl("a", size) : size \in ArraySizes \cup {-1}}
    \cup {ArraySubscriptExpr("a", index) : index \in IndexConstants \cup {NonConstantIndex}}

RECURSIVE AccessNodeLists(_)
AccessNodeLists(n) ==
    IF n = 0 THEN {<< >>}
    ELSE LET shorter == AccessNodeLists(n - 1)
         IN shorter \cup {Append(t, node) : t \in {u \in shorter : Len(u) = n - 1},
                                            node \in AccessNodes}

AccessUnits ==
    {[main_file |-> PathF, nodes |-> nodes] : nodes \in AccessNodeLists(MaxAccessNodes)}

InitBuffer ==
    /\ fs = [p \in AllPaths |-> Absent]
    /\ create_backup_ = TRUE
    /\ interactive_mode_ = FALSE
    /\ backup_files_ = << >>
    /\ issues_ = << >>
    /\ last = [op |-> "init"]
    /\ nfix = 0
    /\ rules_ = << >>
    /\ depth = 0

\* BufferOverflowRule::check(context, reporter) on a new reporter
BufferOverflowCheck ==
    /\ \E context \in AccessUnits :
          /\ issues_' = BufferOverflowRule_check(context, << >>)
          /\ last' = [op |-> "BufferOverflowRule::check", context |-> context]
    /\ UNCHANGED <<fs, create_backup_, interactive_mode_, backup_files_, nfix,
                   rules_, depth>>

NextBuffer == BufferOverflowCheck

SpecBuffer == InitBuffer /\ [][NextBuffer]_vars

(***************************************************************************)
(* The name tests on their own: a function name is chosen at the start and *)
(* handed to the tests of the sanitizer, user-input and SQL vocabularies.  *)
(***************************************************************************)
Fn_Get == <<"G", "e", "t">>
Fn_trim == <<"t", "r", "i", "m">>

\* pieces of a name, and what joins them
NameParts == {<< >>, <<"x">>, Fn_query, Fn_Get, Fn_trim, Fn_input}
NameJoins == {<< >>, <<"_">>}

RECURSIVE FunctionNames(_)
FunctionNames(n) ==
    IF n = 0 THEN {<< >>}
    ELSE {a \o j \o b : a \in FunctionNames(n - 1), j \in NameJoins, b \in NameParts}

InitNames ==
    /\ fs = [p \in AllPaths |-> Absent]
    /\ create_backup_ = TRUE
    /\ interactive_mode_ = FALSE
    /\ backup_files_ = << >>
    /\ issues_ = << >>
    /\ last \in {[op |-> "init", func_name |-> n] : n \in FunctionNames(MaxParts)}
    /\ nfix = 0
    /\ rules_ = << >>
    /\ depth = 0

NameTested(op, ret) ==
    /\ last' = [op |-> op, func_name |-> last.func_name, ret |-> ret]
    /\ UNCHANGED <<fs, create_backup_, interactive_mode_, backup_files_, issues_, nfix,
                   rules_, depth>>

IsSanitizationFunction ==
    NameTested("isSanitizationFunction", isSanitizationFunction(last.func_name))

IsUserInputFunction ==
    NameTested("isUserInputFunction", isUserInputFunction(last.func_name))

IsSQLSinkFunction ==
    NameTested("isSQLSinkFunction", isSQLSinkFunction(last.func_name))

NextNames ==
    \/ IsSanitizationFunction
    \/ IsUserInputFunction
    \/ IsSQLSinkFunction

SpecNames == InitNames /\ [][NextNames]_vars

(***************************************************************************)
(* Properties of applyFix and rollback.                                    *)
(***************************************************************************)
IsFix == last.op = "applyFix"
IsRollback == last.op = "rollback"
Target == last.fix.file_path
Recorded(bf) == {bf[i] : i \in DOMAIN bf}
LineCount(file) == Len(GetLines(file.data, << >>))

\* C1: with backups enabled, applyFix of any action on an existing file with
\* no earlier backup on record, followed at once by rollback(), leaves the
\* file byte-identical to what it was before applyFix was called.
C1_ApplyRollbackRoundTrip ==
    (/\ IsRollback
     /\ last.prev.op = "applyFix"
     /\ last.prev.cb
     /\ last.prev.pre.ex
     /\ last.prev.preBf = << >>)
    => fs[last.prev.fix.file_path] = last.prev.pre

\* C1 witness: a applyFix that changed the file was rolled back
C1_Witness ==
    /\ IsRollback
    /\ last.prev.op = "applyFix"
    /\ last.prev.cb
    /\ last.prev.ret
    /\ last.prev.preBf = << >>
    /\ last.preFs[last.prev.fix.file_path] # last.prev.pre
    /\ fs[last.prev.fix.file_path] = last.prev.pre

\* C2: when applyFix, with backups enabled, starts to write the target, the
\* file <path>.backup already exists, holds the bytes the target had before
\* the call, and is on record for rollback.
C2_BackupBeforeWrite ==
    (IsFix /\ last.cb /\ last.stage \in {"written", "write_failed"})
    => /\ last.mid[BackupPathOf(Target)] = last.pre
       /\ last.pre.ex
       /\ last.mid[Target] = last.pre
       /\ BackupPathOf(Target) \in Recorded(last.midbf)
       /\ fs[BackupPathOf(Target)] = last.pre

\* C2 witness: a second write of the same file, over a stale backup
C2_Witness ==
    /\ IsFix /\ last.cb /\ last.stage = "written"
    /\ last.preFs[BackupPathOf(Target)].ex
    /\ last.preFs[BackupPathOf(Target)] # last.pre
    /\ fs[Target] # last.pre

\* every file with a backup on record holds, after rollback, what its backup held
AllRestored ==
    \A b \in Recorded(last.preBf) :
        /\ last.preFs[b].ex
        /\ fs[OriginalPathOf(b)] = last.preFs[b]

\* C3 (as claimed): rollback() returns true whenever every recorded file
\* was restored from its backup.
C3_FailureOnlyIfUnrestored ==
    (IsRollback /\ AllRestored) => last.ret

\* C4: rollback() handles every record: a recorded backup that exists when
\* rollback starts is copied over its original and deleted, whatever else is
\* missing, and no record is left.
C4_RollbackProcessesAll ==
    IsRollback =>
        /\ backup_files_ = << >>
        /\ \A b \in Recorded(last.preBf) :
              last.preFs[b].ex =>
                  /\ fs[OriginalPathOf(b)] = last.preFs[b]
                  /\ ~fs[b].ex

\* C4 witness: one recorded backup was missing, another was restored
C4_Witness ==
    /\ IsRollback
    /\ ~last.ret
    /\ \E b \in Recorded(last.preBf) : ~last.preFs[b].ex
    /\ \E b \in Recorded(last.preBf) :
          /\ last.preFs[b].ex
          /\ last.preFs[OriginalPathOf(b)] # last.preFs[b]
          /\ fs[OriginalPathOf(b)] = last.preFs[b]
    /\ backup_files_ = << >>

InsertInRange ==
    1 <= last.fix.line_start /\ last.fix.line_start <= LineCount(last.pre) + 1

\* C5: an Insert is applied iff 1 <= line_start <= lineCount + 1; otherwise
\* applyFix returns false and the target's content is as before.
C5_InsertBounds ==
    (IsFix /\ last.fix.type = "INSERT" /\ last.pre.ex)
    => /\ last.ret <=> InsertInRange
       /\ InsertInRange => LineCount(fs[Target]) > LineCount(last.pre)
       /\ ~InsertInRange => fs[Target] = last.pre

\* C5 witness: an insertion at lineCount + 1 of a file with lines
C5_Witness ==
    /\ IsFix /\ last.fix.type = "INSERT" /\ last.ret
    /\ LineCount(last.pre) >= 1
    /\ last.fix.line_start = LineCount(last.pre) + 1

\* C5 witness of the rejection: line_start beyond lineCount + 1
C5_WitnessRejected ==
    /\ IsFix /\ last.fix.type = "INSERT" /\ ~last.ret
    /\ last.fix.line_start > LineCount(last.pre) + 1

ReplaceInRange ==
    1 <= last.fix.line_start /\ last.fix.line_start <= LineCount(last.pre)

DeleteInRange ==
    /\ 1 <= last.fix.line_start
    /\ last.fix.line_start <= last.fix.line_end
    /\ last.fix.line_end <= LineCount(last.pre)

\* C6: a Replace or Delete whose line precondition is violated returns false,
\* leaves the target as it was, and changes nothing in the file system but
\* the backup taken at the start of the call.
C6_ReplaceDeleteRejected ==
    (/\ IsFix /\ last.pre.ex
     /\ \/ last.fix.type = "REPLACE" /\ ~ReplaceInRange
        \/ last.fix.type = "DELETE" /\ ~DeleteInRange)
    => /\ ~last.ret
       /\ fs[Target] = last.pre
       /\ \A q \in AllPaths \ {BackupPathOf(Target)} : fs[q] = last.preFs[q]
       /\ fs[BackupPathOf(Target)] =
             (IF last.cb THEN last.pre ELSE last.preFs[BackupPathOf(Target)])

\* C6 witness: a Delete with line_end < line_start, both within the file
C6_Witness ==
    /\ IsFix /\ last.fix.type = "DELETE" /\ ~last.ret /\ last.cb
    /\ last.fix.line_end < last.fix.line_start
    /\ 1 <= last.fix.line_end
    /\ last.fix.line_start <= LineCount(last.pre)
    /\ fs[BackupPathOf(Target)] = last.pre

\* C7 (as claimed): every failed write is followed by an attempt to restore
\* the target from its backup before applyFix returns false, and the file is
\* not left half-written.
C7_FailedWriteAlwaysRestored ==
    (IsFix /\ last.stage = "write_failed")
    => /\ last.restore_tried
       /\ ~last.ret
       /\ fs[Target] = last.pre

\* C7 (amended): with backups enabled a failed write is followed by an
\* attempt to restore the target from its backup before applyFix returns
\* false, and the target holds its old bytes when that copy succeeds; with
\* backups disabled nothing is attempted.
C7_FailedWriteRestoredWithBackup ==
    (IsFix /\ last.stage = "write_failed")
    => /\ ~last.ret
       /\ last.restore_tried <=> last.cb
       /\ (last.cb /\ last.io.restore_ok) => fs[Target] = last.pre

\* C7 witness: a write failed half-way and the backup was copied back
C7_Witness ==
    /\ IsFix /\ last.stage = "write_failed" /\ last.cb
    /\ last.io.write = "short"
    /\ last.io.restore_ok
    /\ last.restore_tried
    /\ last.pre.data # << >>
    /\ fs[Target] = last.pre

Declines == {<<"n">>, << >>}

\* C8: in interactive mode a declined confirmation makes applyFix return
\* false with the file system and the backup records as they were.
C8_DeclineNoSideEffects ==
    (IsFix /\ last.im /\ last.io.response \in Declines)
    => /\ ~last.ret
       /\ fs = last.preFs
       /\ backup_files_ = last.preBf

\* C8 witness: an edit that the file accepts was declined, backups being on
C8_Witness ==
    /\ IsFix /\ last.im /\ last.io.response \in Declines
    /\ last.cb /\ last.pre.ex
    /\ ApplyEdit(GetLines(last.pre.data, << >>), last.fix).ok
    /\ ~fs[BackupPathOf(Target)].ex

\* C9 (as claimed): an AddInclude applied a second time leaves the file as
\* the first application made it.
C9_AddIncludeIdempotent ==
    (IsFix /\ last.fix.type = "ADD_INCLUDE" /\ last.ret /\ last.repeat)
    => fs[Target] = last.pre

(***************************************************************************)
(* Properties of the edits of applyFix.                                    *)
(***************************************************************************)
PreLines == GetLines(last.pre.data, << >>)
Edited == IsFix /\ last.pre.ex /\ last.stage \in {"invalid", "written"}
FirstOf(set) == CHOOSE i \in set : \A j \in set : i <= j
\* the first character of a line after its leading spaces and tabs
Leading(line) ==
    LET marks == {i \in 1..Len(line) : line[i] \notin {SP, TAB}}
    IN IF marks = {} THEN << >> ELSE <<line[FirstOf(marks)]>>
IsBlankLine(line) == Leading(line) = << >>
\* a line that opens a comment or continues a block comment
IsCommentLine(line) == Leading(line) \in {<<"/">>, <<"*">>}
IsDirectiveLine(line) == Leading(line) = <<"#">>
IncludePresent ==
    \E i \in 1..Len(PreLines) : StrFind(PreLines[i], last.fix.new_code) # NPOS
CodeLines ==
    {i \in 1..Len(PreLines) : ~IsBlankLine(PreLines[i]) /\ ~IsCommentLine(PreLines[i])}
PlainLines == {i \in CodeLines : ~IsDirectiveLine(PreLines[i])}
IncludeBefore(i) ==
    fs[Target].data = Serialize(InsertAt(PreLines, i - 1, last.fix.new_code))

C22_WitnessPresent ==
    /\ Edited /\ last.fix.type = "ADD_INCLUDE" /\ last.ret
    /\ IncludePresent
    /\ Len(PreLines) >= 1

HasColumns == last.fix.column_start > 0 /\ last.fix.column_end > 0
ReplacedLine == PreLines[last.fix.line_start]
SpanStart == last.fix.column_start - 1
SpanLength ==
    IF SpanStart + (last.fix.column_end - last.fix.column_start) > Len(ReplacedLine)
    THEN Len(ReplacedLine) - SpanStart
    ELSE last.fix.column_end - last.fix.column_start
ColumnsRefused ==
    \/ last.fix.column_start > Len(ReplacedLine) + 1
    \/ last.fix.column_end < last.fix.column_start

\* C23: a Replace with a column range is refused, the file as it was, when
\* column_start > line length + 1 or column_end < column_start; otherwise
\* the span from column_start of length column_end - column_start, cut at
\* the end of the line, is what the new text replaces.
C23_ReplaceColumns ==
    (Edited /\ last.fix.type = "REPLACE" /\ ReplaceInRange /\ HasColumns)
    => IF ColumnsRefused
       THEN ~last.ret /\ fs[Target] = last.pre
       ELSE /\ last.ret
            /\ SpanStart + SpanLength <= Len(ReplacedLine)
            /\ fs[Target].data =
                  Serialize([PreLines EXCEPT ![last.fix.line_start] =
                      SubSeq(ReplacedLine, 1, SpanStart) \o last.fix.new_code \o
                      SubSeq(ReplacedLine, SpanStart + SpanLength + 1,
                             Len(ReplacedLine))])

\* C23 witness: a span cut at the end of the line
C23_Witness ==
    /\ Edited /\ last.fix.type = "REPLACE" /\ ReplaceInRange /\ HasColumns
    /\ last.ret
    /\ SpanLength < last.fix.column_end - last.fix.column_start

\* C23 witness of the refusal: column_end before column_start
C23_WitnessRefused ==
    /\ Edited /\ last.fix.type = "REPLACE" /\ ReplaceInRange /\ HasColumns
    /\ ~last.ret
    /\ last.fix.column_start <= Len(ReplacedLine) + 1
    /\ last.fix.column_end < last.fix.column_start

\* a rollback right after the later of two successful applyFix calls on
\* one file, the later one made with backups enabled and a backup of the
\* file on record from before
AfterSecondFix ==
    /\ IsRollback
    /\ last.prev.op = "applyFix"
    /\ last.prev.ret /\ last.prev.cb /\ last.prev.repeat
    /\ \E i \in DOMAIN last.prev.preBf :
          last.prev.preBf[i] = BackupPathOf(last.prev.fix.file_path)

IsFixAll == last.op = "fixAll"

Called == {i \in DOMAIN last.log : last.log[i].called}
CalledOk == {i \in Called : last.log[i].ret}

\* C10: fixAll visits every finding; it calls applyFix for exactly the
\* findings whose severity is at or above the filter (numerically at most
\* filter_severity) and for which generateFix produced an action; a finding
\* without an action changes no counter: fixed_count is the number of
\* applyFix calls that returned true, fixed_count + failed_count the number
\* of applyFix calls; modified_files holds, without repetition, exactly the
\* paths of the calls that returned true.
C10_FixAllCounts ==
    (IsFixAll /\ issues_ # << >>) =>
        /\ Len(last.log) = Len(issues_)
        /\ \A i \in DOMAIN issues_ :
              /\ last.log[i].passed = (issues_[i].severity <= last.filter_severity)
              /\ last.log[i].called = (last.log[i].passed /\ last.log[i].generated)
        /\ last.result.fixed_count = Cardinality(CalledOk)
        /\ last.result.fixed_count + last.result.failed_count = Cardinality(Called)
        /\ \A i, j \in DOMAIN last.result.modified_files :
              last.result.modified_files[i] = last.result.modified_files[j] => i = j
        /\ {last.result.modified_files[i] : i \in DOMAIN last.result.modified_files}
              = {last.log[i].file_path : i \in CalledOk}

\* a batch with one applyFix call that succeeded and one that failed
C10_Witness ==
    /\ IsFixAll
    /\ last.result.fixed_count = 1
    /\ last.result.failed_count = 1
    /\ Len(last.result.modified_files) = 1

\* two successful calls on the same file: the path is listed once
C10_WitnessDedup ==
    /\ IsFixAll
    /\ last.result.fixed_count = 2
    /\ Len(last.result.modified_files) = 1

\* a finding filtered out and a finding without a generator
C10_WitnessSkipped ==
    /\ IsFixAll
    /\ \E i \in DOMAIN last.log : ~last.log[i].passed
    /\ \E i \in DOMAIN last.log : last.log[i].passed /\ ~last.log[i].generated
    /\ last.result.fixed_count = 0
    /\ last.result.failed_count = 0

\* C11: fixAll returns success = true exactly when no applyFix call of the
\* batch returned false, which is when failed_count = 0; with an empty
\* finding list it returns success with both counters 0 and no modified
\* file, and leaves every file and the backup list as they were.
C11_FixAllSuccess ==
    IsFixAll =>
        /\ last.result.success = (Called \ CalledOk = {})
        /\ last.result.success = (last.result.failed_count = 0)
        /\ (issues_ = << >> =>
               /\ last.result.success
               /\ last.result.fixed_count = 0
               /\ last.result.failed_count = 0
               /\ last.result.modified_files = << >>
               /\ fs = last.preFs
               /\ backup_files_ = last.preBf)

\* a batch in which one applyFix call failed after another had succeeded
C11_Witness ==
    /\ IsFixAll
    /\ ~last.result.success
    /\ last.result.fixed_count > 0
    /\ Called \ CalledOk # {}

\* fixAll over an empty finding list
C11_WitnessEmpty ==
    /\ IsFixAll
    /\ issues_ = << >>
    /\ last.result.success

(***************************************************************************)
(* Properties of the buffer-overflow rule.                                 *)
(***************************************************************************)
IsBufferCheck == last.op = "BufferOverflowRule::check"
AccessNodesOf == last.context.nodes

\* the value of a constant index expression
IndexValue(int) == IF int.IsUnsigned THEN int.VAL ELSE getSExtValue(int)

\* the array type of the variable is known at node k: a declaration of
\* constant array type stands before it
SizeKnownAt(k) ==
    \E d \in 1..(k - 1) : AccessNodesOf[d].kind = "VarDecl" /\ AccessNodesOf[d].size >= 0
SizeAt(k) ==
    LET ds == {d \in 1..(k - 1) :
                 AccessNodesOf[d].kind = "VarDecl" /\ AccessNodesOf[d].size >= 0}
    IN AccessNodesOf[CHOOSE d \in ds : \A e \in ds : e <= d].size

\* the findings about the subscript at node k
FindingsAt(k) ==
    {i \in DOMAIN issues_ :
        issues_[i].rule_id = "BUFFER-OVERFLOW-001" /\ issues_[i].line = k}

OneFindingAt(k, what, severity) ==
    /\ Cardinality(FindingsAt(k)) = 1
    /\ \A i \in FindingsAt(k) :
          issues_[i].description[1] = what /\ issues_[i].severity = severity

\* C21: a subscript of an array of known size n with a constant index i
\* gives no finding when 0 <= i < n, one overflow finding when i >= n, one
\* underflow finding when i < 0; with an index that is not constant it
\* gives one LOW finding when n <= 10 and none otherwise.  A subscript of
\* an array of unknown size gives a finding only when the index is a
\* negative constant.
C21_SubscriptClassification ==
    IsBufferCheck =>
        \A k \in DOMAIN AccessNodesOf :
            AccessNodesOf[k].kind = "ArraySubscriptExpr" =>
                LET index == AccessNodesOf[k].index
                IN IF SizeKnownAt(k)
                   THEN IF index.constant
                        THEN /\ (0 <= IndexValue(index) /\ IndexValue(index) < SizeAt(k))
                                   => FindingsAt(k) = {}
                             /\ IndexValue(index) >= SizeAt(k)
                                   => OneFindingAt(k, "overflow", CRITICAL)
                             /\ IndexValue(index) < 0
                                   => OneFindingAt(k, "underflow", CRITICAL)
                        ELSE IF SizeAt(k) <= 10
                             THEN OneFindingAt(k, "non-constant index", LOW)
                             ELSE FindingsAt(k) = {}
                   ELSE FindingsAt(k) # {} => (index.constant /\ IndexValue(index) < 0)

(***************************************************************************)
(* Properties of the name tests.                                           *)
(***************************************************************************)
\* the keyword occurs in the name at offset pos with no alphanumeric
\* character before it and none after it
WholeWordOccurrence(name, keyword, pos) ==
    /\ SubSeq(name, pos + 1, pos + Len(keyword)) = keyword
    /\ (pos = 0 \/ name[pos] \notin Alnum)
    /\ (pos + Len(keyword) = Len(name) \/ name[pos + Len(keyword) + 1] \notin Alnum)

ContainsWholeWord(name, keywords) ==
    \E keyword \in keywords :
        \E pos \in 0..(Len(name) - Len(keyword)) : WholeWordOccurrence(name, keyword, pos)

\* the entries and the keywords of the vocabulary a test looks a name up in
EntriesOf(op) ==
    CASE op = "isSanitizationFunction" -> sanitize_funcs
      [] op = "isUserInputFunction" -> input_funcs
      [] op = "isSQLSinkFunction" -> sql_funcs
KeywordsOf(op) ==
    CASE op = "isSanitizationFunction" -> sanitize_funcs
      [] op = "isUserInputFunction" -> InputKeywords
      [] op = "isSQLSinkFunction" -> SQLKeywords

IsNameTest ==
    last.op \in {"isSanitizationFunction", "isUserInputFunction", "isSQLSinkFunction"}

\* C24: a function name matches the sanitizer, user-input or SQL-sink
\* vocabulary if and only if it is an entry of the vocabulary or some
\* occurrence of a keyword in it has no alphanumeric neighbour.
C24_WholeWordContainment ==
    IsNameTest =>
        (last.ret <=> \/ last.func_name \in EntriesOf(last.op)
                      \/ ContainsWholeWord(last.func_name, KeywordsOf(last.op)))

(***************************************************************************)
(* Properties of the rule engine and the reporter.                         *)
(***************************************************************************)
IsRunAll == last.op = "runAllRules"

\* the positions 1..n in order
Positions(n) == [i \in 1..n |-> i]

\* C12: after any sequence of registerRule calls, getRuleCount is the
\* number of those calls, runAllRules leaves it unchanged, and runAllRules
\* calls the check of every registered rule exactly once, in registration
\* order.
C12_RunAllInvokesEveryRuleOnce ==
    /\ getRuleCount(rules_) = last.calls.registered
    /\ (IsRunAll => last.invoked = Positions(getRuleCount(rules_)))

\* C13: when the check of a registered rule ends with a failure,
\* runAllRules catches it, calls the check of every rule registered after
\* it, and returns to its caller.
C13_FailureIsCaught ==
    IsRunAll =>
        \A i \in DOMAIN last.invoked :
            rules_[last.invoked[i]].ends # "returns" =>
                /\ ~last.escaped
                /\ \A j \in (last.invoked[i] + 1)..Len(rules_) :
                       InSeq(last.invoked, j)

\* the findings the check of a rule adds, in the order it adds them
EmittedBy(rule, context) ==
    [k \in DOMAIN rule.emits |-> Issue(context, k, rule.emits[k], rule.id, << >>)]

RECURSIVE EmittedByAll(_, _, _)
EmittedByAll(rules, invoked, context) ==
    IF invoked = << >> THEN << >>
    ELSE EmittedBy(rules[Head(invoked)], context)
         \o EmittedByAll(rules, Tail(invoked), context)

\* C14: after runAllRules the reporter holds the findings it held before,
\* followed by the findings of the rules in the order the rules ran, those
\* of one rule in the order the rule added them; nothing is reordered,
\* removed or merged, and the rules ran in registration order.
C14_FindingsInRunOrder ==
    IsRunAll =>
        /\ issues_ = last.preIssues \o EmittedByAll(rules_, last.invoked, last.context)
        /\ \A i, j \in DOMAIN last.invoked : i < j => last.invoked[i] < last.invoked[j]

\* two rules ran on a reporter that held findings; the first added two
\* findings of different severity, and the second added one that the
\* reporter held already
C14_Witness ==
    /\ IsRunAll
    /\ Len(last.invoked) = 2
    /\ last.preIssues # << >>
    /\ Len(rules_[1].emits) = 2
    /\ rules_[1].emits[1] # rules_[1].emits[2]
    /\ rules_[2].emits # << >>
    /\ InSeq(last.preIssues, EmittedBy(rules_[2], last.context)[1])

\* the rules that ran and whose check ended with a failure, as positions
\* of last.invoked
FailedRuns == {i \in DOMAIN last.invoked : rules_[last.invoked[i]].ends # "returns"}

\* C30: after runAllRules the findings a rule added before its check
\* failed are in the reporter, after the findings of the rules that ran
\* before it and followed by the findings of the rules that ran after it.
C30_FailedRuleKeepsFindings ==
    IsRunAll =>
        \A i \in FailedRuns :
            issues_ = last.preIssues
                      \o EmittedByAll(rules_, SubSeq(last.invoked, 1, i - 1), last.context)
                      \o EmittedBy(rules_[last.invoked[i]], last.context)
                      \o EmittedByAll(rules_, SubSeq(last.invoked, i + 1, Len(last.invoked)),
                                      last.context)

\* C30 witness: the first rule added a finding and failed, the second ran
\* after it and added another
C30_Witness ==
    /\ IsRunAll
    /\ Len(last.invoked) = 2
    /\ 1 \in FailedRuns
    /\ rules_[1].emits # << >>
    /\ rules_[2].emits # << >>
    /\ rules_[1].id # rules_[2].id
    /\ Len(issues_) = Len(last.preIssues) + Len(rules_[1].emits) + Len(rules_[2].emits)

\* the list with the findings at i and j exchanged
Swap(issues, i, j) ==
    [k \in DOMAIN issues |-> IF k = i THEN issues[j] ELSE IF k = j THEN issues[i]
                             ELSE issues[k]]

\* C16: getCriticalCount is the number of addIssue calls made with a
\* finding of severity CRITICAL, getIssueCount the number of addIssue
\* calls, and exchanging any two findings of the list changes neither.
C16_CountsMatchAdds ==
    /\ getIssueCount(issues_) = last.calls.added
    /\ getCriticalCount(issues_) = last.calls.critical
    /\ \A i, j \in DOMAIN issues_ :
          /\ getCriticalCount(Swap(issues_, i, j)) = getCriticalCount(issues_)
          /\ getIssueCount(Swap(issues_, i, j)) = getIssueCount(issues_)

\* findings of severity CRITICAL and others were added, a CRITICAL one
\* after another one
C16_Witness ==
    /\ last.calls.critical > 0
    /\ last.calls.added > last.calls.critical + 1
    /\ \E i \in DOMAIN issues_ :
          /\ i > 1
          /\ issues_[i].severity = CRITICAL
          /\ issues_[i - 1].severity # CRITICAL

(***************************************************************************)
(* Properties of the analyses.                                             *)
(***************************************************************************)
IsTaintCheck == last.op = "TaintAnalysisRule::check"
IsLeakCheck == last.op = "MemoryLeakRule::check"

\* the taint paths of all the analyzers of the check
RECURSIVE Flatten(_)
Flatten(lists) == IF lists = << >> THEN << >> ELSE Head(lists) \o Flatten(Tail(lists))

TaintPaths == Flatten(last.analyzed)

\* C15: rules keep no state from one check to the next: a check on a new
\* reporter adds the findings that the first check of the process adds on
\* the same unit.
C15_ChecksAreStateless ==
    IsTaintCheck =>
        issues_ = TaintAnalysisRule_check(last.context, << >>, 0,
                                          [fail |-> last.fail]).issues

\* x = read_input(); y = x; query(y);
ReadInputUnit == TaintUnit(Fn_read_input, FALSE, Fn_query, 0, FALSE, << >>)

\* C17: for the body x = read_input(); y = x; query(y) the analyzer adds
\* exactly one finding and records exactly one taint path, of SQL or
\* command risk, whose source is at the line and column of the
\* read_input() call.
C17_ReadInputFlowReported ==
    (IsTaintCheck /\ last.context = ReadInputUnit /\ last.preDepth = 0 /\ ~last.thrown) =>
        /\ Len(issues_) = 1
        /\ Len(TaintPaths) = 1
        /\ TaintPaths[1].sink.risk_type \in {RISK_SQL, RISK_COMMAND}
        /\ issues_[1].description[1] \in {RISK_SQL, RISK_COMMAND}
        /\ TaintPaths[1].source.line = 1
        /\ TaintPaths[1].source.column = 5
        /\ issues_[1].description[3] = 1

Log == last.log

IsSanitizerEntry(e) == e.kind = "CallExpr" /\ isSanitizationFunction(e.name)

IsSinkEntry(e) ==
    /\ e.kind = "CallExpr"
    /\ \/ isSQLSinkFunction(e.name)
       \/ isCommandSinkFunction(e.name)
       \/ isFilePathSinkFunction(e.name)
       \/ isFormatStringSink(e.name)

\* an assignment to v is analysed after entry i and before entry j
AssignedBetween(v, i, j) ==
    \E k \in (i + 1)..(j - 1) : Log[k].kind = "BinaryOperator" /\ Log[k].vars = <<v>>

\* the units in which y = sanitize(y) stands before the sink call on y
SanitizedUnits ==
    {TaintUnit(src, TRUE, sink, levels, tail, second) :
        src \in SourceNames, sink \in SinkNames, levels \in NestLevels,
        tail \in BOOLEAN, second \in Seconds}

RECURSIVE Entered(_, _, _)
Entered(stmt, entry, fn) ==
    {[kind |-> stmt.kind, fn |-> fn,
      line |-> IF stmt.kind \in {"BinaryOperator", "CallExpr"} THEN stmt.line ELSE 0,
      column |-> IF stmt.kind \in {"BinaryOperator", "CallExpr"} THEN stmt.column ELSE 0,
      first |-> entry, last |-> entry + Levels(stmt) - 1]}
    \cup UNION {Entered(stmt.children[i], entry + Levels(stmt), fn) :
                   i \in DOMAIN stmt.children}

\* the nodes of the functions i.. of a unit, the k-th function with a body
\* being numbered k
RECURSIVE EnteredIn(_, _, _, _)
EnteredIn(functions, i, k, entry) ==
    IF i > Len(functions) THEN {}
    ELSE IF ~functions[i].hasBody THEN EnteredIn(functions, i + 1, k, entry)
    ELSE Entered(functions[i].body, entry, k)
         \cup EnteredIn(functions, i + 1, k + 1, entry)

Nodes == EnteredIn(last.context.functions, 1, 1, last.preDepth)

Place(e) == [kind |-> e.kind, fn |-> e.fn, line |-> e.line, column |-> e.column]

LeakFindings(v) ==
    {i \in DOMAIN issues_ :
        issues_[i].rule_id = "MEMORY-LEAK-001" /\ issues_[i].description = <<v>>}

UnitNodes == last.context.nodes

AllocatedAt(v, i) == UnitNodes[i].kind = "VarDecl" /\ UnitNodes[i].var = v

ReleasedAt(v, j) ==
    UnitNodes[j].kind \in {"CXXDeleteExpr", "ReturnStmt"} /\ UnitNodes[j].var = v

\* C20: a variable initialised with new gets exactly one MEMORY-LEAK-001
\* finding when it is neither deleted nor returned anywhere in the unit,
\* and none when it is deleted or returned later.
C20_LeakClassification ==
    IsLeakCheck =>
        \A v \in LeakVars :
            \A i \in DOMAIN UnitNodes :
                AllocatedAt(v, i) =>
                    /\ (~(\E j \in DOMAIN UnitNodes : ReleasedAt(v, j)) =>
                           Cardinality(LeakFindings(v)) = 1)
                    /\ ((\E j \in DOMAIN UnitNodes : j > i /\ ReleasedAt(v, j)) =>
                           Cardinality(LeakFindings(v)) = 0)

\* the tainted set as it was when the node of entry j was reached: what
\* the entry before it left, the empty set for the first node of a body
Before(j) ==
    IF j > 1 /\ Log[j - 1].fn = Log[j].fn THEN Log[j - 1].tainted ELSE {}

\* C26: after every statement of a function body the set tainted_vars_ is
\* the key set of taint_sources_, and both are empty when the walk of a
\* function body starts.
C26_TaintedVarsHaveSources ==
    IsTaintCheck =>
        /\ \A j \in DOMAIN Log : Log[j].tainted = Log[j].sources
        /\ \A f \in DOMAIN last.starts :
               last.starts[f].tainted = {} /\ last.starts[f].sources = {}

\* C26 witness: variables were tainted and one was sanitized in the first
\* function, which ended with a tainted variable, and a second function
\* was analysed
C26_Witness ==
    /\ IsTaintCheck
    /\ Len(last.starts) = 2
    /\ \E j \in DOMAIN Log :
          /\ Log[j].fn = 1 /\ IsSanitizerEntry(Log[j])
          /\ Log[j].tainted # Before(j)
    /\ \E j \in DOMAIN Log :
          /\ j + 1 \in DOMAIN Log
          /\ Log[j].fn = 1 /\ Log[j + 1].fn = 2
          /\ Log[j].tainted # {}

\* C27: within a function body the tainted set shrinks at sanitizer calls
\* only, and an assignment whose right side is neither a tainted variable
\* nor a call of a source leaves the tainted set as it was.
C27_TaintOnlyShrinksAtSanitizers ==
    IsTaintCheck =>
        \A j \in DOMAIN Log :
            /\ ~IsSanitizerEntry(Log[j]) => Before(j) \subseteq Log[j].tainted
            /\ (/\ Log[j].kind = "BinaryOperator"
                /\ Log[j].rhs \notin Before(j)
                /\ ~Log[j].src) => Log[j].tainted = Before(j)

\* C27 witness: a tainted variable was assigned an untainted one, stayed
\* tainted, and the sink call on it that followed reported a flow
C27_Witness ==
    /\ IsTaintCheck
    /\ \E i, j \in DOMAIN Log :
          /\ i < j /\ Log[i].fn = Log[j].fn
          /\ Log[i].kind = "BinaryOperator"
          /\ Log[i].rhs # "" /\ Log[i].rhs \notin Before(i)
          /\ Log[i].vars[1] \in Before(i)
          /\ Log[i].vars[1] \in Log[i].tainted
          /\ IsSinkEntry(Log[j])
          /\ Log[j].vars = Log[i].vars
          /\ Log[j].reported = 1
          /\ ~AssignedBetween(Log[i].vars[1], i, j)

\* the arguments of the call of entry j that were tainted at the call
TaintedArgs(j) == {k \in DOMAIN Log[j].vars : Log[j].vars[k] \in Before(j)}

\* C28: a sink call reports one flow for every tainted argument, and the
\* findings the check added are, one for one and in order, the taint paths
\* its analyzers recorded.
C28_OneFindingPerTaintedArgument ==
    (IsTaintCheck /\ ~last.thrown) =>
        /\ \A j \in DOMAIN Log :
               Log[j].reported =
                   (IF IsSinkEntry(Log[j]) /\ ~IsSanitizerEntry(Log[j])
                    THEN Cardinality(TaintedArgs(j)) ELSE 0)
        /\ Len(issues_) = Len(TaintPaths)
        /\ \A i \in DOMAIN issues_ :
               /\ issues_[i].rule_id = "TAINT-ANALYSIS-001"
               /\ issues_[i].line = TaintPaths[i].sink.line
               /\ issues_[i].description[2] = TaintPaths[i].source.variable_name

\* C28 witness: a sink call with two tainted arguments and one that is not
C28_Witness ==
    /\ IsTaintCheck /\ ~last.thrown
    /\ \E j \in DOMAIN Log :
          /\ IsSinkEntry(Log[j])
          /\ Len(Log[j].vars) = 3
          /\ Cardinality(TaintedArgs(j)) = 2
          /\ Log[j].reported = 2
    /\ Len(issues_) >= 3

\* C29: the depth counter of the walk is always within 0..1000, and it is
\* 0 whenever the walk of a function body has returned.
C29_DepthBackToZero ==
    /\ depth \in 0..MAX_DEPTH
    /\ IsTaintCheck => \A f \in DOMAIN last.returned : last.returned[f] = 0

====
